---------------------------- MODULE Spec2Model ----------------------------
(***************************************************************************)
(* A model of the research-paper analysis backend (jathinkumar07/rpac).    *)
(*                                                                         *)
(* Texts are TLA+ strings handled character by character, so the string    *)
(* operations of the Python code (find, split, strip, lower, the regular   *)
(* expressions) are modelled by what they compute.  External collaborators *)
(* (the PDF library, the paper-search API, the summarization model, the    *)
(* TF-IDF library) are nondeterministic choices over their outcomes.       *)
(***************************************************************************)
EXTENDS Integers, Sequences, FiniteSets, TLC

VARIABLES
    \* ---- one analysis request (routes/simple_analyze.py, app_improved.py,
    \* ---- routes/analysis.py)
    route,          \* which handler serves the request
    upload,         \* the uploaded file: [present, filename, oversize, readable, doc]
    pc,             \* the handler's position
    text,           \* the extracted text (a string)
    invoked,        \* the pipeline stages invoked so far, in order
    inputs,         \* what the collaborators did for this request
    summary,        \* summarizer output
    plagiarism,     \* plagiarism score, in hundredths of a percent
    citations,      \* output of extract_citations
    citation_results, \* output of validate_citations
    response        \* [status |-> code, body |-> record]

VARIABLES
    \* ---- calls of the plagiarism scorers
    scorer,         \* the scorer called last
    scored,         \* the text it was given: [repeats |-> n] sentences repeated
    score_inputs,   \* what the search API and the TF-IDF library did
    reported        \* the score it reported, in hundredths of a percent

VARIABLES
    \* ---- the summarization model handle shared by the request threads
    model_cache,    \* _model_cache: the handle stored under 'summarizer', or 0
    loads,          \* how many times pipeline(...) has constructed a handle
    tpc,            \* each request thread's position
    seen,           \* what each thread's "not in _model_cache" test found
    handle          \* the handle each thread summarizes with, or 0

VARIABLES
    \* ---- calls of the citation validators
    validator,      \* which implementation is called
    given,          \* its argument
    lookups,        \* the fixed responses of the search API
    calls,          \* how many times it has been called on that argument
    runs            \* what each call returned, in order

VARIABLES
    \* ---- one call of a function of the services on its own
    unit,           \* the function called, or "none"
    argument,       \* the text it is given
    behaviour,      \* what its collaborators (model, external services) do
    effects,        \* the calls it made to its collaborators, in order
    returned        \* what it returned

analyzeVars == <<route, upload, pc, text, invoked, inputs, summary, plagiarism,
                 citations, citation_results, response>>
scoreVars == <<scorer, scored, score_inputs, reported>>
cacheVars == <<model_cache, loads, tpc, seen, handle>>
validateVars == <<validator, given, lookups, calls, runs>>
unitVars == <<unit, argument, behaviour, effects, returned>>

VARIABLES
    \* ---- the application of src/__init__.py, its database and its tokens
    users,              \* table users: the row of id i is users[i]
    documents,          \* table documents, likewise; a deleted row is Gone
    analyses,           \* table analyses, likewise
    citation_rows,      \* table citations, likewise
    blacklisted_tokens, \* routes/auth.py blacklisted_tokens: a set of jti
    issued,             \* the tokens issued so far; the jti is the index
    reply               \* the last request and the response to it

VARIABLES
    \* ---- the upload directory shared by the request threads
    upload_folder,      \* the bytes stored under each filename, or Absent
    jobs                \* per request thread: its upload and how far it is

storeVars == <<users, documents, analyses, citation_rows, blacklisted_tokens,
               issued, reply>>
uploadVars == <<upload_folder, jobs>>

vars == <<analyzeVars, scoreVars, cacheVars, validateVars, unitVars, storeVars,
          uploadVars>>

-----------------------------------------------------------------------------
(***************************************************************************)
(* Python str operations, on TLA+ strings.  Indices returned by Find are   *)
(* Python's (0-based, -1 when absent); SubSeq and Ch are 1-based.          *)
(***************************************************************************)
Min(S) == CHOOSE m \in S : \A n \in S : m <= n
Max(S) == 0 - Min({0 - n : n \in S})

\* s[a-1:b] for 1-based inclusive a..b, clamped to the string like a Python slice
Sub(s, a, b) ==
    LET lo == IF a < 1 THEN 1 ELSE a
        hi == IF b > Len(s) THEN Len(s) ELSE b
    IN  IF lo > hi THEN "" ELSE SubSeq(s, lo, hi)

\* the character at 1-based position i, "" outside the string
Ch(s, i) == Sub(s, i, i)

Digits == {"0", "1", "2", "3", "4", "5", "6", "7", "8", "9"}
Spaces == {" ", "\n", "\t", "\r"}
UpperLetters == {"A", "B", "C", "D", "E", "F", "G", "H", "I", "J", "K", "L", "M",
                 "N", "O", "P", "Q", "R", "S", "T", "U", "V", "W", "X", "Y", "Z"}
LowerLetters == {"a", "b", "c", "d", "e", "f", "g", "h", "i", "j", "k", "l", "m",
                 "n", "o", "p", "q", "r", "s", "t", "u", "v", "w", "x", "y", "z"}
\* \w of the re module, for ASCII text
WordChars == UpperLetters \cup LowerLetters \cup Digits \cup {"_"}

LowerCh(c) ==
    CASE c = "A" -> "a" [] c = "B" -> "b" [] c = "C" -> "c" [] c = "D" -> "d"
      [] c = "E" -> "e" [] c = "F" -> "f" [] c = "G" -> "g" [] c = "H" -> "h"
      [] c = "I" -> "i" [] c = "J" -> "j" [] c = "K" -> "k" [] c = "L" -> "l"
      [] c = "M" -> "m" [] c = "N" -> "n" [] c = "O" -> "o" [] c = "P" -> "p"
      [] c = "Q" -> "q" [] c = "R" -> "r" [] c = "S" -> "s" [] c = "T" -> "t"
      [] c = "U" -> "u" [] c = "V" -> "v" [] c = "W" -> "w" [] c = "X" -> "x"
      [] c = "Y" -> "y" [] c = "Z" -> "z" [] OTHER -> c

\* str.lower()
RECURSIVE Lower(_)
Lower(s) ==
    IF Len(s) = 0 THEN ""
    ELSE IF Len(s) = 1 THEN LowerCh(s)
    ELSE LET h == Len(s) \div 2
         IN  Lower(SubSeq(s, 1, h)) \o Lower(SubSeq(s, h + 1, Len(s)))

\* str.find(p): the 0-based index of the first occurrence of p, or -1
Find(s, p) ==
    LET idx == {i \in 1..(Len(s) - Len(p) + 1) : SubSeq(s, i, i + Len(p) - 1) = p}
    IN  IF idx = {} THEN -1 ELSE Min(idx) - 1

Contains(s, p) == Find(s, p) # -1

\* str.startswith(p)
StartsWith(s, p) == Len(s) >= Len(p) /\ SubSeq(s, 1, Len(p)) = p

\* s[start:] for a 0-based start in 0..len(s)
From(s, start) == SubSeq(s, start + 1, Len(s))

\* str.strip()
Strip(s) ==
    LET keep == {i \in 1..Len(s) : Ch(s, i) \notin Spaces}
    IN  IF keep = {} THEN "" ELSE SubSeq(s, Min(keep), Max(keep))

\* the elements of a set of integers, in increasing order
RECURSIVE SortedSeq(_)
SortedSeq(S) ==
    IF S = {} THEN <<>>
    ELSE LET lo == Min(S)
             hi == Max(S)
             mid == (lo + hi) \div 2
         IN  IF lo = hi THEN <<lo>>
             ELSE SortedSeq({n \in S : n <= mid}) \o SortedSeq({n \in S : n > mid})

\* str.split(sep) for a one-character separator: always at least one piece
Split(s, sep) ==
    LET pos == SortedSeq({i \in 1..Len(s) : Ch(s, i) = sep})
        n   == Len(pos)
        lo(j) == IF j = 1 THEN 1 ELSE pos[j - 1] + 1
        hi(j) == IF j = n + 1 THEN Len(s) ELSE pos[j] - 1
    IN  [j \in 1..(n + 1) |-> SubSeq(s, lo(j), hi(j))]

\* the maximal runs of characters of s inside cls (inside = TRUE) or outside
\* it (inside = FALSE), left to right
Runs(s, cls, inside) ==
    LET in(i) == (Ch(s, i) \in cls) = inside
        starts == SortedSeq({i \in 1..Len(s) : in(i) /\ (i = 1 \/ ~in(i - 1))})
        ends   == SortedSeq({i \in 1..Len(s) : in(i) /\ (i = Len(s) \/ ~in(i + 1))})
    IN  [k \in 1..Len(starts) |-> SubSeq(s, starts[k], ends[k])]

\* str.split() with no argument: the whitespace-separated words
SplitWs(s) == Runs(s, Spaces, FALSE)

\* re.findall(r'\b\w+\b', s)
Words(s) == Runs(s, WordChars, TRUE)

\* seq[:n]
Take(seq, n) == SubSeq(seq, 1, IF Len(seq) < n THEN Len(seq) ELSE n)

Range(seq) == {seq[i] : i \in DOMAIN seq}

\* sep.join(seq)
RECURSIVE Join(_, _)
Join(seq, sep) ==
    IF seq = <<>> THEN ""
    ELSE IF Len(seq) = 1 THEN seq[1]
    ELSE LET h == Len(seq) \div 2
         IN  Join(SubSeq(seq, 1, h), sep) \o sep \o Join(SubSeq(seq, h + 1, Len(seq)), sep)

-----------------------------------------------------------------------------
(***************************************************************************)
(* services/citations_service.py: CitationsService                         *)
(***************************************************************************)
NoMatch == [found |-> FALSE, group |-> ""]

\* 1-based positions where the regex \[\d+\] matches, with the position of
\* the closing bracket
MarkerEnd(s, i) ==
    IF Ch(s, i) # "[" THEN 0
    ELSE LET close == {j \in (i + 2)..Len(s) :
                         /\ Ch(s, j) = "]"
                         /\ \A k \in (i + 1)..(j - 1) : Ch(s, k) \in Digits}
         IN  IF close = {} THEN 0 ELSE Min(close)

MarkerStarts(s) == {i \in 1..Len(s) : MarkerEnd(s, i) # 0}

\* re.findall(r'\[\d+\].*?(?=\[\d+\]|$)', text, re.DOTALL): each match runs
\* from a marker to just before the next marker, the last one to the end of
\* the text ($ also matches before a final newline)
NumberedRefs(s) ==
    LET starts == SortedSeq(MarkerStarts(s))
        n      == Len(starts)
        eot    == IF Len(s) > 0 /\ Ch(s, Len(s)) = "\n" THEN Len(s) - 1 ELSE Len(s)
        stop(k) == IF k = n THEN eot ELSE starts[k + 1] - 1
    IN  [k \in 1..n |-> SubSeq(s, starts[k], stop(k))]

references_patterns == <<"references", "bibliography", "works cited", "citations">>

\* the for/break loop of extract_citations over references_patterns
RefsStart(text_lower) ==
    LET hits == {k \in DOMAIN references_patterns :
                    Find(text_lower, references_patterns[k]) # -1}
    IN  IF hits = {} THEN -1 ELSE Find(text_lower, references_patterns[Min(hits)])

RefLineLimit == 20
RefCap == 10
MinCitationLen == 20

\* the condition under which a stripped line of the references text is kept
KeepRefLine(line) ==
    /\ Len(line) > MinCitationLen
    /\ ~StartsWith(Lower(line), "references")
    /\ ~StartsWith(Lower(line), "bibliography")

\* the loop over ref_lines[:20]: append kept lines, break at 10
RECURSIVE CollectRefs(_, _)
CollectRefs(lines, acc) ==
    IF lines = <<>> \/ Len(acc) >= RefCap THEN acc
    ELSE LET line == Strip(Head(lines))
         IN  CollectRefs(Tail(lines),
                         IF KeepRefLine(line) THEN Append(acc, line) ELSE acc)

\* an extraction that takes the long lines of any text
ExtractAnyLongLines(t) == CollectRefs(Take(Split(t, "\n"), RefLineLimit), <<>>)

\* CitationsService.extract_citations
extract_citations(t) ==
    LET references_start == RefsStart(Lower(t))
    IN  IF references_start = -1
        THEN Take(NumberedRefs(t), RefCap)
        ELSE CollectRefs(Take(Split(From(t, references_start), "\n"), RefLineLimit),
                         <<>>)

\* s with leading whitespace removed (a greedy leading \s*)
LStrip(s) ==
    LET keep == {i \in 1..Len(s) : Ch(s, i) \notin Spaces}
    IN  IF keep = {} THEN "" ELSE SubSeq(s, Min(keep), Len(s))

\* the length of the run of digits of s that starts at position i
DigitRun(s, i) ==
    LET stop == {j \in i..(Len(s) + 1) : j = Len(s) + 1 \/ Ch(s, j) \notin Digits}
    IN  Min(stop) - i

\* re.sub(r'^\s*\d+\.\s*', '', c)
StripLeadingNumber(c) ==
    LET b == LStrip(c)
        d == DigitRun(b, 1)
    IN  IF d >= 1 /\ Ch(b, d + 1) = "." THEN LStrip(SubSeq(b, d + 2, Len(b))) ELSE c

\* re.sub(r'^\s*\[\d+\]\s*', '', c)
StripLeadingBracket(c) ==
    LET b == LStrip(c)
        e == MarkerEnd(b, 1)
    IN  IF e # 0 THEN LStrip(SubSeq(b, e + 1, Len(b))) ELSE c

\* re.search(q + '([^' + q + ']+)' + q, c) for a one-character delimiter q
Delimited(c, q) ==
    LET Q == {i \in 1..Len(c) : Ch(c, i) = q}
        next(i) == Min({j \in Q : j > i})
        ok == {i \in Q : (\E j \in Q : j > i) /\ next(i) > i + 1}
    IN  IF ok = {} THEN NoMatch
        ELSE [found |-> TRUE, group |-> SubSeq(c, Min(ok) + 1, next(Min(ok)) - 1)]

\* the match of [\s]*([^.]+)\. that starts right after position e of c, if any:
\* the group runs to the next period and holds at least one character
UpToPeriod(c, e) ==
    LET dots == {j \in (e + 1)..Len(c) : Ch(c, j) = "."}
    IN  IF dots = {} \/ Min(dots) = e + 1 THEN NoMatch
        ELSE LET raw == SubSeq(c, e + 1, Min(dots) - 1)
             IN  [found |-> TRUE,
                  group |-> IF LStrip(raw) = "" THEN SubSeq(raw, Len(raw), Len(raw))
                            ELSE LStrip(raw)]

\* re.search(r'\)\.[\s]*([^.]+)\.', c)
AfterParenPeriod(c) ==
    LET at == {i \in 1..(Len(c) - 1) :
                 Sub(c, i, i + 1) = ")." /\ UpToPeriod(c, i + 1).found}
    IN  IF at = {} THEN NoMatch ELSE UpToPeriod(c, Min(at) + 1)

\* the position of the ')' closing \(\d{4}[a-z]?\) that opens at i, or 0
YearEnd(c, i) ==
    IF Ch(c, i) # "(" \/ DigitRun(c, i + 1) < 4 THEN 0
    ELSE IF DigitRun(c, i + 1) = 4 /\ Ch(c, i + 5) = ")" THEN i + 5
    ELSE IF DigitRun(c, i + 1) = 4 /\ Ch(c, i + 5) \in LowerLetters /\ Ch(c, i + 6) = ")"
         THEN i + 6
    ELSE 0

\* re.search(r'\(\d{4}[a-z]?\)[\s]*([^.]+)\.', c)
AfterYear(c) ==
    LET at == {i \in 1..Len(c) :
                 YearEnd(c, i) # 0 /\ UpToPeriod(c, YearEnd(c, i)).found}
    IN  IF at = {} THEN NoMatch ELSE UpToPeriod(c, YearEnd(c, Min(at)))

\* \b before position i of s, where a word character stands at i
WordStartsAt(s, i) == Ch(s, i) \in WordChars /\ (i = 1 \/ Ch(s, i - 1) \notin WordChars)

\* re.search(r'\b(pp?\.|vol\.|\d+\(\d+\)|journal|proceedings)', part, re.IGNORECASE)
LooksLikeJournal(part) ==
    LET low == Lower(part)
        word(i, w) == WordStartsAt(low, i) /\ Sub(low, i, i + Len(w) - 1) = w
        issue(i) == LET d == DigitRun(low, i)
                        e == DigitRun(low, i + d + 1)
                    IN  /\ WordStartsAt(low, i)
                        /\ d >= 1
                        /\ Ch(low, i + d) = "("
                        /\ e >= 1
                        /\ Ch(low, i + d + 1 + e) = ")"
    IN  \E i \in 1..Len(low) :
           \/ word(i, "p.") \/ word(i, "pp.") \/ word(i, "vol.")
           \/ issue(i)
           \/ word(i, "journal") \/ word(i, "proceedings")

MinTitleLen == 10

\* [p.strip() for p in citation.split('.') if len(p.strip()) > 10]
RECURSIVE LongParts(_)
LongParts(pieces) ==
    IF pieces = <<>> THEN <<>>
    ELSE IF Len(Strip(Head(pieces))) > MinTitleLen
         THEN <<Strip(Head(pieces))>> \o LongParts(Tail(pieces))
    ELSE LongParts(Tail(pieces))

\* the loop "for part in parts[1:3]" of clean_citation: the first part that
\* does not look like a journal name, or "" when there is none
SegmentTitle(parts) ==
    LET cand == {k \in 2..3 : k <= Len(parts) /\ ~LooksLikeJournal(parts[k])}
    IN  IF Len(parts) >= 2 /\ cand # {} THEN parts[Min(cand)] ELSE ""

\* CitationsService.clean_citation
clean_citation(citation) ==
    LET flat   == Strip(Join(Split(citation, "\n"), " "))
        c      == StripLeadingBracket(StripLeadingNumber(flat))
        quoted == Delimited(c, "\"")
        italic == Delimited(c, "*")
        paren  == AfterParenPeriod(c)
        year   == AfterYear(c)
        parts  == LongParts(Split(c, "."))
    IN  IF quoted.found THEN quoted.group
        ELSE IF italic.found THEN italic.group
        ELSE IF paren.found /\ Len(Strip(paren.group)) > MinTitleLen
             THEN Strip(paren.group)
        ELSE IF year.found /\ Len(Strip(year.group)) > MinTitleLen
             THEN Strip(year.group)
        ELSE IF SegmentTitle(parts) # "" THEN SegmentTitle(parts)
        ELSE IF parts # <<>> THEN parts[1]
        ELSE IF Len(c) > 5 THEN c ELSE ""

-----------------------------------------------------------------------------
(***************************************************************************)
(* The paper-search API (Semantic Scholar), as requests.get sees it.  An   *)
(* outcome is what one GET produces:                                       *)
(*   ok               status 200 and a JSON body {"data": papers}          *)
(*   http_error       a non-200 status                                     *)
(*   timeout          requests.exceptions.Timeout                          *)
(*   connection_error another requests.exceptions.RequestException         *)
(*   bad_json         status 200 and a body response.json() cannot decode  *)
(* A paper is [title, abstract]; None stands for a JSON null.              *)
(***************************************************************************)
None == "<None>"

Ok(papers) == [kind |-> "ok", papers |-> papers]
Fails(kind) == [kind |-> kind, papers |-> <<>>]
FailureKinds == {"http_error", "timeout", "connection_error", "bad_json"}

\* requests.get raises (Timeout and ConnectionError are RequestExceptions)
GetRaises(outcome) == outcome.kind \in {"timeout", "connection_error"}

\* set(title.lower().split())
WordSet(title) == Range(SplitWs(Lower(title)))

OverlapNum == 3
OverlapDen == 10

\* "similarity > 0.3" for similarity = overlap / len(search_words)
GoodMatch(cleaned_title, result_title) ==
    LET search_words == WordSet(cleaned_title)
        overlap == Cardinality(search_words \cap WordSet(result_title))
    IN  /\ Cardinality(search_words) > 0
        /\ OverlapDen * overlap > OverlapNum * Cardinality(search_words)

\* the loop "for result in data['data']" of validate_citations: a null title
\* raises (None has no lower()) unless an earlier result already matched
RECURSIVE MatchLoop(_, _)
MatchLoop(cleaned_title, papers) ==
    IF papers = <<>> THEN [raised |-> FALSE, valid |-> FALSE, matched |-> None]
    ELSE IF Head(papers).title = None
         THEN [raised |-> TRUE, valid |-> FALSE, matched |-> None]
    ELSE IF GoodMatch(cleaned_title, Head(papers).title)
         THEN [raised |-> FALSE, valid |-> TRUE, matched |-> Head(papers).title]
    ELSE MatchLoop(cleaned_title, Tail(papers))

MinQueryLen == 5

\* whether validate_citations sends a request for this citation
NeedsLookup(citation) == Len(clean_citation(citation)) >= MinQueryLen

ProcessingError(citation) ==
    [reference |-> citation, valid |-> FALSE, reason |-> "Processing error"]

ApiRequestFailed(citation, cleaned_title) ==
    [reference |-> citation, valid |-> FALSE, reason |-> "API request failed",
     searched_title |-> cleaned_title]

\* one iteration of the loop of CitationsService.validate_citations, given
\* the outcome of its request.  json_is_request_exc: whether the installed
\* requests raises its own JSONDecodeError (a RequestException) or a plain
\* ValueError from response.json()
\* the loop body from "if not cleaned_title" on, and the result of the loop
\* over data["data"] once the response has been read
Matched(citation, cleaned_title, loop) ==
    IF loop.raised THEN ProcessingError(citation)
    ELSE IF loop.valid
    THEN [reference |-> citation, valid |-> TRUE,
          searched_title |-> cleaned_title, matched_paper |-> loop.matched]
    ELSE [reference |-> citation, valid |-> FALSE,
          searched_title |-> cleaned_title,
          reason |-> "No matching paper found in Semantic Scholar"]

ValidateCleaned(citation, cleaned_title, outcome, json_is_request_exc) ==
    IF Len(cleaned_title) < MinQueryLen
    THEN [reference |-> citation, valid |-> FALSE,
          reason |-> "Could not extract title"]
    ELSE IF GetRaises(outcome) \/ outcome.kind = "http_error"
    THEN ApiRequestFailed(citation, cleaned_title)
    ELSE IF outcome.kind = "bad_json"
    THEN IF json_is_request_exc THEN ApiRequestFailed(citation, cleaned_title)
         ELSE ProcessingError(citation)
    ELSE Matched(citation, cleaned_title, MatchLoop(cleaned_title, outcome.papers))

ValidateOne(citation, outcome, json_is_request_exc) ==
    ValidateCleaned(citation, clean_citation(citation), outcome, json_is_request_exc)

-----------------------------------------------------------------------------
(***************************************************************************)
(* Plagiarism scoring.  Percentages are integers in hundredths of a        *)
(* percent (1234 is 12.34%).  The TF-IDF cosine similarity is sklearn's:   *)
(* its maximum times 100 is an input, in thousandths of a percent, or      *)
(* SimError when the vectorizer raises.                                    *)
(***************************************************************************)
SimError == -1

\* round(n / d) for n >= 0, d > 0, ties to even (Python's round)
RoundDiv(n, d) ==
    LET q == n \div d
        r == n % d
    IN  IF 2 * r < d THEN q
        ELSE IF 2 * r > d THEN q + 1
        ELSE IF q % 2 = 0 THEN q ELSE q + 1

NoiseFloor == 10
MinKeywordLen == 4
MinKeywords == 3
MinAbstractLen == 50

\* a score without the noise floor
UnflooredScore(max_score) == RoundDiv(max_score, 10)

\* "round(max_score, 2) if max_score > 10 else 0", max_score in thousandths
FlooredScore(max_score) ==
    IF max_score > NoiseFloor * 1000 THEN RoundDiv(max_score, 10) ELSE 0

\* common_words = [w for w in words if len(w) > 4]
CommonWordCount(t) ==
    LET words == Words(Lower(t))
    IN  Cardinality({i \in DOMAIN words : Len(words[i]) > MinKeywordLen})

\* abstracts kept by PlagiarismService.detect_plagiarism
LongAbstracts(papers) ==
    {i \in DOMAIN papers :
        papers[i].abstract # None /\ Len(papers[i].abstract) > MinAbstractLen}

\* whether PlagiarismService.detect_plagiarism sends its request
PlagiarismNeedsLookup(t) == CommonWordCount(t) >= MinKeywords

\* PlagiarismService.detect_plagiarism, given the outcome of its request and
\* the similarity sklearn computes
detect_plagiarism(t, outcome, sim) ==
    IF ~PlagiarismNeedsLookup(t) THEN 0
    ELSE IF outcome.kind # "ok" THEN 0
    ELSE IF LongAbstracts(outcome.papers) = {} THEN 0
    ELSE IF sim = SimError THEN 0
    ELSE FlooredScore(sim)

\* app_improved.detect_external_similarity
detect_external_similarity(t, outcome, sim) ==
    IF outcome.kind # "ok" THEN 0
    ELSE IF {i \in DOMAIN outcome.papers :
                outcome.papers[i].abstract \notin {None, ""}} = {} THEN 0
    ELSE IF sim = SimError THEN 0
    ELSE FlooredScore(sim)

SentenceEnds == {".", "!", "?"}

\* re.split(r'(?<=[.!?])\s+', text): the separators are the maximal runs of
\* whitespace that follow a '.', '!' or '?'
SentencePieces(t) ==
    LET sepStart == SortedSeq({i \in 2..Len(t) :
                       Ch(t, i) \in Spaces /\ Ch(t, i - 1) \in SentenceEnds})
        sepEnd(i) == Min({j \in i..Len(t) : j = Len(t) \/ Ch(t, j + 1) \notin Spaces})
        n == Len(sepStart)
        lo(k) == IF k = 1 THEN 1 ELSE sepEnd(sepStart[k - 1]) + 1
        hi(k) == IF k = n + 1 THEN Len(t) ELSE sepStart[k] - 1
    IN  [k \in 1..(n + 1) |-> Sub(t, lo(k), hi(k))]

MinSentenceLen == 25
MinSentences == 5
ShingleLen == 7
MinRepetitionTextLen == 200

\* the sentences either repetition scorer keeps: stripped, longer than 25
RECURSIVE LongSentences(_)
LongSentences(pieces) ==
    IF pieces = <<>> THEN <<>>
    ELSE IF Len(Strip(Head(pieces))) > MinSentenceLen
         THEN <<Strip(Head(pieces))>> \o LongSentences(Tail(pieces))
    ELSE LongSentences(Tail(pieces))

\* _ngrams(tokens, 7): every run of 7 consecutive tokens
Ngrams(tokens) ==
    [i \in 1..(IF Len(tokens) >= ShingleLen THEN Len(tokens) - ShingleLen + 1 ELSE 0)
        |-> SubSeq(tokens, i, i + ShingleLen - 1)]

\* re.findall(r"[A-Za-z0-9']+", s.lower())
TokenChars == LowerLetters \cup UpperLetters \cup Digits \cup {"'"}
Tokenize(sentence) == Runs(Lower(sentence), TokenChars, TRUE)

\* all shingles of all sentences, with repetitions (the Counter's elements)
RECURSIVE AllShingles(_, _)
AllShingles(sents, legacy) ==
    IF sents = <<>> THEN <<>>
    ELSE Ngrams(IF legacy THEN Tokenize(Head(sents)) ELSE Words(Lower(Head(sents))))
            \o AllShingles(Tail(sents), legacy)

\* sum(c for c in counts.values() if c > 1): the shingles that occur twice or more
DuplicateCount(shingles) ==
    Cardinality({i \in DOMAIN shingles :
                    \E j \in DOMAIN shingles : j # i /\ shingles[j] = shingles[i]})

\* min(1.0, dup / total), and min(100.0, 100 * dup / total)
ClampRatio(ratio) == IF ratio[1] > ratio[2] THEN <<1, 1>> ELSE ratio

\* [dup, total] of the repetition score dup / total, or <<0, 1>> for the
\* texts either scorer gives 0
Repetition(t, legacy) ==
    LET sents == LongSentences(SentencePieces(t))
        sh == AllShingles(sents, legacy)
    IN  IF Len(sents) < MinSentences \/ sh = <<>> THEN <<0, 1>>
        ELSE ClampRatio(<<DuplicateCount(sh), Len(sh)>>)

\* app_improved.detect_internal_repetition, in hundredths of a percent
\* (unrounded: the quotient is kept as [num, den])
detect_internal_repetition(t) == Repetition(t, FALSE)

\* app_improved.detect_plagiarism_advanced: round(0.7 * external + 0.3 * internal, 2)
detect_plagiarism_advanced(t, outcome, sim) ==
    LET external == detect_external_similarity(t, outcome, sim)
        internal == detect_internal_repetition(t)
    IN  IF Len(t) < MinRepetitionTextLen THEN 0
        ELSE RoundDiv(7 * external * internal[2] + 30000 * internal[1],
                      10 * internal[2])

\* plagiarism_service.check: int(round(100 * check_plagiarism(text)["plagiarism_score"])),
\* a whole percentage
check(t) ==
    LET rep == Repetition(t, TRUE)
    IN  IF Len(t) < MinRepetitionTextLen THEN 0
        ELSE RoundDiv(100 * rep[1], rep[2])

-----------------------------------------------------------------------------
(***************************************************************************)
(* Summaries and word counts                                               *)
(***************************************************************************)
SummaryTextLimit == 1024
FallbackSentences == 3

\* '. '.join(text.split('.')[:3]) + '.'
FallbackSummary(t) == Join(Take(Split(t, "."), FallbackSentences), ". ") \o "."

\* what the summarization model returns when it works
ModelSummary == "A summary written by the model."

\* how the summarization model behaves for one request
ModelBehaviours == {"ok", "load_fails", "inference_fails"}

\* a summarizer without its fallbacks
SummarizeWithoutFallback(t, model) == IF model = "ok" THEN ModelSummary ELSE ""

\* SummarizerService.summarize_text: a pipeline that cannot be loaded is
\* replaced by fallback_summarizer, which sees the truncated text; a failed
\* inference falls back on the whole text
summarize_text(t, model) ==
    LET text_for_summary ==
            IF Len(t) > SummaryTextLimit THEN Sub(t, 1, SummaryTextLimit) ELSE t
    IN  CASE model = "ok"         -> ModelSummary
          [] model = "load_fails" -> FallbackSummary(text_for_summary)
          [] OTHER                -> FallbackSummary(t)

UnableToSummarize == "Unable to generate summary due to processing limitations."

\* the summary step of app_improved.analyze_paper
ImprovedSummary(model) == IF model = "ok" THEN ModelSummary ELSE UnableToSummarize

\* CritiqueService.count_words and app_improved.get_word_count
count_words(t) == Len(Words(t))

-----------------------------------------------------------------------------
(***************************************************************************)
(* The uploaded documents.  A document is described by its structure and   *)
(* rendered to the text the PDF library extracts from it.                  *)
(***************************************************************************)
MaxK == 11

Filler ==
    "the quick brown fox jumps over one lazy dog whilst seven wizards quietly throw boxes and the band plays on for everyone today"

Title == "A study of widgets and their uses in modern industry\n"

Pad(n, margin) ==
    [kind |-> "pad", n |-> n, margin |-> margin, pre |-> "", header |-> "",
     layout |-> "", style |-> "", k |-> 0]

Paper(pre, header, layout, style, k) ==
    [kind |-> "paper", n |-> 0, margin |-> FALSE, pre |-> pre, header |-> header,
     layout |-> layout, style |-> style, k |-> k]

\* the body before the references section
Pre(p) ==
    CASE p = "plain" ->
            "Widgets are studied in this paper with great care and attention to detail.\n"
      [] p = "cites" ->
            "As shown in [1] and by (Smith, 2020), widgets matter a great deal in industry.\n"
      [] p = "apa" ->
            "As shown by (Smith, 2020), widgets matter a great deal in modern industry.\n"
      [] p = "mentions" ->
            "All references are listed at the end.\nThe second paragraph reports what the measurements of widgets show.\n"

\* the i-th entry of the reference list
Entry(style, i) ==
    (IF style = "bracket" THEN "[" \o ToString(i) \o "] " ELSE ToString(i) \o ". ")
        \o "Smith, J. (2020). Deep learning for widgets " \o ToString(i)
        \o ". Nature, 15(3)."

Layouts == {"tight", "spaced", "gapped"}

HeaderLine(d) ==
    IF d.header = "none" THEN ""
    ELSE d.header \o "\n" \o (IF d.layout = "gapped" THEN "\n" ELSE "")

RECURSIVE EntryLines(_, _)
EntryLines(d, i) ==
    IF i > d.k THEN ""
    ELSE Entry(d.style, i) \o "\n" \o (IF d.layout = "tight" THEN "" ELSE "\n")
            \o EntryLines(d, i + 1)

\* the text of the document's pages
Render(d) ==
    IF d.kind = "pad"
    THEN (IF d.margin THEN "  " ELSE "") \o Sub(Filler, 1, d.n)
            \o (IF d.margin THEN " \n" ELSE "")
    ELSE Title \o Pre(d.pre) \o HeaderLine(d) \o EntryLines(d, 1)

\* the entries of the document's reference list, in document order
Entries(d) == [i \in 1..d.k |-> Entry(d.style, i)]

-----------------------------------------------------------------------------
(***************************************************************************)
(* The requests.  POST /analyze is served by routes/simple_analyze.py      *)
(* ("analyze") or by app_improved.py ("improved"); POST /analysis/run by   *)
(* routes/analysis.py ("run"), whose document was uploaded earlier.        *)
(***************************************************************************)
Routes == {"analyze", "improved", "run"}

MinTextLen == 50
MinAnalysisLen == 100

PadLens == {0, MinTextLen - 1, MinTextLen, MinAnalysisLen - 1, MinAnalysisLen}

ShortDocs == {Pad(n, m) : n \in PadLens, m \in BOOLEAN}

\* reference lists of every length in the tight layout, and lists around the
\* cap in the layouts with blank lines
ListedDocs ==
    {Paper("plain", "References", "tight", "numbered", k) : k \in 0..MaxK}
        \cup {Paper("plain", "References", l, "numbered", k) :
                 l \in Layouts \ {"tight"}, k \in {RefCap - 1, RefCap}}

OtherDocs ==
    {Paper("mentions", "References", "tight", "numbered", k) : k \in {0, 5}}
        \cup {Paper(p, "none", "tight", "numbered", 0) : p \in {"plain", "cites", "apa"}}
        \cup {Paper("plain", h, "tight", "bracket", 3) :
                 h \in {"REFERENCES", "Bibliography", "none"}}

Docs == ShortDocs \cup ListedDocs \cup OtherDocs

GoodUpload(d) ==
    [present |-> TRUE, filename |-> "paper.pdf", oversize |-> FALSE,
     readable |-> TRUE, doc |-> d]

\* uploads that the handlers turn away before or while reading the file
BadUploads ==
    LET u == GoodUpload(Paper("plain", "References", "tight", "numbered", 3))
    IN  {[u EXCEPT !.present = FALSE], [u EXCEPT !.filename = ""],
         [u EXCEPT !.filename = "paper.txt"], [u EXCEPT !.oversize = TRUE],
         [u EXCEPT !.readable = FALSE]}

Uploads(r) ==
    CASE r = "analyze"  -> BadUploads \cup {GoodUpload(d) : d \in Docs}
      [] r = "improved" -> BadUploads
                             \cup {GoodUpload(d) : d \in ShortDocs \cup OtherDocs}
                             \cup {GoodUpload(d) : d \in {x \in ListedDocs : x.k = MaxK}}
      [] r = "run"      -> {GoodUpload(d) : d \in ShortDocs \cup OtherDocs}

\* extract_text_from_pdf: the pages' text, each followed by "\n", stripped
ExtractedText(u) == Strip(Render(u.doc) \o "\n")

\* str.endswith
EndsWith(s, p) == Len(s) >= Len(p) /\ Sub(s, Len(s) - Len(p) + 1, Len(s)) = p

Respond(status, body) == [status |-> status, body |-> body]
NoResponse == Respond(0, [error |-> ""])

\* the collaborators have not been called yet
NotCalled == Fails("not_called")
NoInputs == [model |-> "not_called", plag |-> NotCalled, sim |-> 0,
             script |-> <<>>, json_is_request_exc |-> FALSE]

-----------------------------------------------------------------------------
(***************************************************************************)
(* What the paper-search API and the TF-IDF library do during a request    *)
(***************************************************************************)
LongAbstract ==
    "We study deep learning for widgets and report measurements from industry."

MatchingPaper == [title |-> "Deep learning for widgets", abstract |-> LongAbstract]
OtherPaper == [title |-> "Gardening in winter", abstract |-> None]
NullPaper == [title |-> None, abstract |-> None]

Outcomes ==
    {Ok(<<>>), Ok(<<MatchingPaper>>), Ok(<<OtherPaper>>), Ok(<<NullPaper>>)}
        \cup {Fails(kind) : kind \in FailureKinds}

\* similarity levels on both sides of the noise floor, and a vectorizer error
AnalyzeSims == {SimError, 55554}

\* the plagiarism stage's request and, where abstracts come back, the similarity
PlagInputs ==
    {[outcome |-> o, sim |-> 0] :
        o \in {Ok(<<>>), Fails("http_error"), Fails("timeout"), Fails("connection_error")}}
        \cup {[outcome |-> Ok(<<MatchingPaper>>), sim |-> s] : s \in AnalyzeSims}

\* the outcomes of the citation lookups of one request: the n-th lookup gets
\* the n-th outcome, cyclically
Script(outcomes, json_is_request_exc) ==
    [outcomes |-> outcomes, json_is_request_exc |-> json_is_request_exc]

Scripts ==
    {Script(<<o>>, FALSE) : o \in Outcomes \ {Ok(<<OtherPaper>>)}}
        \cup {Script(<<Fails("bad_json")>>, TRUE),
              Script(<<Ok(<<MatchingPaper>>), Fails("timeout")>>, FALSE),
              Script(<<Ok(<<>>), Ok(<<MatchingPaper>>)>>, FALSE)}

ScriptAt(script, n) == script.outcomes[((n - 1) % Len(script.outcomes)) + 1]

\* a validator that carries on through the responses where its last call stopped
validate_citations_resuming(cits, script) ==
    [i \in 1..Len(Take(cits, RefCap)) |->
        ValidateOne(cits[i], ScriptAt(script, i + calls), script.json_is_request_exc)]

\* CitationsService.validate_citations: the first 10 citations, one result each
validate_citations(cits, script) ==
    [i \in 1..Len(Take(cits, RefCap)) |->
        ValidateOne(cits[i], ScriptAt(script, i), script.json_is_request_exc)]

-----------------------------------------------------------------------------
(***************************************************************************)
(* app_improved.py: citations                                              *)
(***************************************************************************)
ImprovedRefCap == 20

\* the loop of app_improved.extract_citations over lines[1:]
RECURSIVE CollectImproved(_, _)
CollectImproved(lines, acc) ==
    IF lines = <<>> \/ Len(acc) >= ImprovedRefCap THEN acc
    ELSE CollectImproved(Tail(lines),
                         IF Len(Strip(Head(lines))) > MinCitationLen
                         THEN Append(acc, Strip(Head(lines))) ELSE acc)

\* app_improved.extract_citations
extract_citations_improved(t) ==
    LET low == Lower(t)
        references_start == IF Find(low, "references") # -1
                            THEN Find(low, "references")
                            ELSE Find(low, "bibliography")
    IN  IF references_start = -1 THEN <<>>
        ELSE CollectImproved(Tail(Split(From(t, references_start), "\n")), <<>>)

\* app_improved.clean_citation
clean_citation_improved(citation) ==
    LET c == Strip(Join(Split(citation, "\n"), " "))
        quoted == Delimited(c, "\"")
        title_candidate == Split(c, ".")[1]
    IN  IF quoted.found THEN quoted.group
        ELSE IF Len(title_candidate) > 5 THEN title_candidate
        ELSE c

NotFound == "Not Found"
ApiTimeout == "API Timeout"

\* app_improved.search_citation, given the outcome of its request
search_citation(query, outcome) ==
    CASE outcome.kind = "timeout" -> ApiTimeout
      [] outcome.kind \in {"connection_error", "bad_json"} ->
            "API Error: " \o outcome.kind
      [] outcome.kind = "http_error" -> NotFound
      [] OTHER -> IF outcome.papers # <<>> THEN outcome.papers[1].title ELSE NotFound

\* the body of the loop of app_improved.validate_citations for one citation
\* whose first request is the n-th of the call: up to three searches
SearchThrice(citation, script, n) ==
    LET cleaned_title == clean_citation_improved(citation)
        keywords == Join(Take(SplitWs(cleaned_title), 4), " ")
        first  == search_citation(citation, ScriptAt(script, n))
        second == search_citation(cleaned_title, ScriptAt(script, n + 1))
        third  == search_citation(keywords, ScriptAt(script, n + 2))
    IN  IF first # NotFound THEN [result |-> first, requests |-> 1]
        ELSE IF second # NotFound THEN [result |-> second, requests |-> 2]
        ELSE [result |-> third, requests |-> 3]

\* d[key] = value for a dict kept as a sequence of [key, value] in insertion order
DictSet(d, key, value) ==
    IF \E i \in DOMAIN d : d[i].key = key
    THEN [i \in DOMAIN d |-> IF d[i].key = key THEN [key |-> key, value |-> value]
                             ELSE d[i]]
    ELSE Append(d, [key |-> key, value |-> value])

RECURSIVE ImprovedValidate(_, _, _, _)
ImprovedValidate(cits, script, n, acc) ==
    IF cits = <<>> THEN acc
    ELSE LET one == SearchThrice(Head(cits), script, n)
         IN  ImprovedValidate(Tail(cits), script, n + one.requests,
                              DictSet(acc, Head(cits), one.result))

\* app_improved.validate_citations
validate_citations_improved(cits, script) ==
    ImprovedValidate(Take(cits, RefCap), script, 1, <<>>)

\* result != "Not Found" and not result.startswith("Error") and result != "API Timeout"
FormattedValid(result) ==
    result # NotFound /\ ~StartsWith(result, "Error") /\ result # ApiTimeout

\* "Format citations for frontend" in app_improved.analyze_paper
FormatCitations(d) ==
    [i \in DOMAIN d |-> [reference |-> d[i].key, valid |-> FormattedValid(d[i].value)]]

\* a null title has no startswith: the formatting loop raises
FormattingRaises(d) == \E i \in DOMAIN d : d[i].value = None

-----------------------------------------------------------------------------
(***************************************************************************)
(* The handlers, one action per step                                       *)
(***************************************************************************)
\* the other parts of the model, at rest
ScoresIdle ==
    /\ scorer = "none"
    /\ scored = [repeats |-> 0]
    /\ score_inputs = [outcome |-> NotCalled, sim |-> 0]
    /\ reported = 0

CacheIdle ==
    /\ model_cache = 0
    /\ loads = 0
    /\ tpc = <<>>
    /\ seen = <<>>
    /\ handle = <<>>

ValidatorsIdle ==
    /\ validator = "none"
    /\ given = <<>>
    /\ lookups = Script(<<>>, FALSE)
    /\ calls = 0
    /\ runs = <<>>

UnitsIdle ==
    /\ unit = "none"
    /\ argument = ""
    /\ behaviour = <<>>
    /\ effects = <<>>
    /\ returned = <<>>

\* a deleted row of a table
Gone == [deleted |-> TRUE]
\* no request has been served
NoReply == [endpoint |-> "none"]

StoreIdle ==
    /\ users = <<>>
    /\ documents = <<>>
    /\ analyses = <<>>
    /\ citation_rows = <<>>
    /\ blacklisted_tokens = {}
    /\ issued = <<>>
    /\ reply = NoReply

UploadsIdle ==
    /\ upload_folder = <<>>
    /\ jobs = <<>>

RequestsIdle ==
    /\ route = "none"
    /\ upload = GoodUpload(Pad(0, FALSE))
    /\ pc = "done"
    /\ text = ""
    /\ invoked = <<>>
    /\ inputs = NoInputs
    /\ summary = ""
    /\ plagiarism = 0
    /\ citations = <<>>
    /\ citation_results = <<>>
    /\ response = NoResponse

Init ==
    /\ ScoresIdle
    /\ CacheIdle
    /\ ValidatorsIdle
    /\ UnitsIdle
    /\ StoreIdle
    /\ UploadsIdle
    /\ route \in Routes
    /\ upload \in Uploads(route)
    /\ pc = IF route = "run" THEN "extract_text" ELSE "validate_upload"
    /\ text = ""
    /\ invoked = <<>>
    /\ inputs = NoInputs
    /\ summary = ""
    /\ plagiarism = 0
    /\ citations = <<>>
    /\ citation_results = <<>>
    /\ response = NoResponse

Error(status, message) == Respond(status, [error |-> message])

\* the response with which the upload is turned away, or NoResponse:
\* validate_file_upload for routes/simple_analyze.py, the checks at the top of
\* app_improved.analyze_paper
UploadRejection(u, r) ==
    IF ~u.present
    THEN Error(400, IF r = "analyze" THEN "No file provided" ELSE "No file uploaded")
    ELSE IF u.filename = "" THEN Error(400, "No file selected")
    ELSE IF ~EndsWith(Lower(u.filename), ".pdf")
    THEN Error(400, IF r = "analyze" THEN "Only .pdf files are allowed"
                    ELSE "Only PDF files are allowed")
    ELSE IF r = "analyze" /\ u.oversize
    THEN Error(413, "File too large. Maximum size is 25MB")
    ELSE NoResponse

ValidateUpload ==
    /\ pc = "validate_upload"
    /\ response' = UploadRejection(upload, route)
    /\ pc' = IF response' = NoResponse THEN "extract_text" ELSE "done"
    /\ UNCHANGED <<route, upload, text, invoked, inputs, summary, plagiarism,
                   citations, citation_results>>
    /\ UNCHANGED <<scoreVars, cacheVars, validateVars, unitVars, storeVars, uploadVars>>

\* a length check that lets every text through
ProcessPdfAcceptsAll(t) == FALSE

\* "not text or len(text.strip()) < 50" of process_uploaded_pdf
ProcessPdfRejects(t) == Len(Strip(t)) < MinTextLen

\* "not text or len(text.strip()) < 100" of run_analysis and app_improved
AnalysisRejects(t) == Len(Strip(t)) < MinAnalysisLen

\* the response with which the handler stops after reading the file, or
\* NoResponse.  routes/simple_analyze.py: the exceptions of
\* process_uploaded_pdf reach the inner handler of analyze_paper;
\* app_improved: extract_text_from_pdf returns "" for a file it cannot read
ExtractionRejection(u, r) ==
    CASE r = "analyze" ->
            IF ~u.readable
            THEN Error(500, "Analysis failed: Failed to extract text from PDF")
            ELSE IF ProcessPdfRejects(ExtractedText(u))
            THEN Error(500, "Analysis failed: No readable text found in PDF or text too short")
            ELSE NoResponse
      [] r = "improved" ->
            IF ~u.readable \/ AnalysisRejects(ExtractedText(u))
            THEN Error(400, "No readable text found in PDF or document too short")
            ELSE NoResponse
      [] r = "run" ->
            IF AnalysisRejects(ExtractedText(u))
            THEN Respond(400, [message |-> "Document text too short for analysis"])
            ELSE NoResponse

ExtractText ==
    /\ pc = "extract_text"
    /\ response' = ExtractionRejection(upload, route)
    /\ IF response' = NoResponse
       THEN text' = ExtractedText(upload) /\ pc' = "summarize"
       ELSE text' = text /\ pc' = "done"
    /\ UNCHANGED <<route, upload, invoked, inputs, summary, plagiarism,
                   citations, citation_results>>
    /\ UNCHANGED <<scoreVars, cacheVars, validateVars, unitVars, storeVars, uploadVars>>

Summarize ==
    /\ pc = "summarize"
    /\ route \in {"analyze", "improved"}
    /\ \E model \in ModelBehaviours :
          /\ summary' = IF route = "analyze" THEN summarize_text(text, model)
                        ELSE ImprovedSummary(model)
          /\ inputs' = [inputs EXCEPT !.model = model]
    /\ invoked' = Append(invoked, "summarizer")
    /\ pc' = "plagiarism"
    /\ UNCHANGED <<route, upload, text, plagiarism, citations, citation_results,
                   response>>
    /\ UNCHANGED <<scoreVars, cacheVars, validateVars, unitVars, storeVars, uploadVars>>

DetectPlagiarism ==
    /\ pc = "plagiarism"
    /\ \E in \in PlagInputs :
          /\ plagiarism' = IF route = "analyze"
                           THEN detect_plagiarism(text, in.outcome, in.sim)
                           ELSE detect_plagiarism_advanced(text, in.outcome, in.sim)
          /\ inputs' = [inputs EXCEPT !.plag = in.outcome, !.sim = in.sim]
    /\ invoked' = Append(invoked, "plagiarism")
    /\ pc' = "extract_citations"
    /\ UNCHANGED <<route, upload, text, summary, citations, citation_results,
                   response>>
    /\ UNCHANGED <<scoreVars, cacheVars, validateVars, unitVars, storeVars, uploadVars>>

ExtractCitations ==
    /\ pc = "extract_citations"
    /\ citations' = IF route = "analyze" THEN extract_citations(text)
                    ELSE extract_citations_improved(text)
    /\ invoked' = Append(invoked, "extract_citations")
    /\ pc' = "validate_citations"
    /\ UNCHANGED <<route, upload, text, inputs, summary, plagiarism,
                   citation_results, response>>
    /\ UNCHANGED <<scoreVars, cacheVars, validateVars, unitVars, storeVars, uploadVars>>

ValidateCitations ==
    /\ pc = "validate_citations"
    /\ \E script \in Scripts :
          /\ citation_results' = IF route = "analyze"
                                 THEN validate_citations(citations, script)
                                 ELSE validate_citations_improved(citations, script)
          /\ inputs' = [inputs EXCEPT !.script = script.outcomes,
                           !.json_is_request_exc = script.json_is_request_exc]
    /\ invoked' = Append(invoked, "validate_citations")
    /\ pc' = "critique"
    /\ UNCHANGED <<route, upload, text, summary, plagiarism, citations, response>>
    /\ UNCHANGED <<scoreVars, cacheVars, validateVars, unitVars, storeVars, uploadVars>>

\* a response whose citations_count counts the extracted citations
ReportCountingExtracted(cits) ==
    [summary |-> summary, plagiarism |-> plagiarism, citations |-> cits,
     fact_check |-> [facts |-> <<>>],
     stats |-> [word_count |-> count_words(text),
                plagiarism_percent |-> plagiarism,
                citations_count |-> Len(citations)]]

\* the response dict of routes/simple_analyze.py
Report(cits) ==
    [summary |-> summary, plagiarism |-> plagiarism, citations |-> cits,
     fact_check |-> [facts |-> <<>>],
     stats |-> [word_count |-> count_words(text),
                plagiarism_percent |-> plagiarism,
                citations_count |-> Len(cits)]]

\* critique_paper (its result is not part of the response), then the response
CritiqueAndRespond ==
    /\ pc = "critique"
    /\ route = "analyze"
    /\ invoked' = Append(invoked, "critique")
    /\ response' = Respond(200, Report(citation_results))
    /\ pc' = "done"
    /\ UNCHANGED <<route, upload, text, inputs, summary, plagiarism, citations,
                   citation_results>>
    /\ UNCHANGED <<scoreVars, cacheVars, validateVars, unitVars, storeVars, uploadVars>>

\* app_improved.analyze_paper from "Generating critique..." on
ImprovedCritiqueAndRespond ==
    /\ pc = "critique"
    /\ route = "improved"
    /\ invoked' = Append(invoked, "critique")
    /\ response' = IF FormattingRaises(citation_results)
                   THEN Respond(500, [status |-> "error",
                                      error |-> "Analysis failed: 'NoneType' object has no attribute 'startswith'"])
                   ELSE Respond(200, Report(FormatCitations(citation_results)))
    /\ pc' = "done"
    /\ UNCHANGED <<route, upload, text, inputs, summary, plagiarism, citations,
                   citation_results>>
    /\ UNCHANGED <<scoreVars, cacheVars, validateVars, unitVars, storeVars, uploadVars>>

\* routes/analysis.py run_analysis past the length check: summarize, check,
\* validate and critique are called in turn; what summarize, validate,
\* critique and the database produce is not part of this model, so the
\* response is 201 or, when one of them raises, 500
RunPipeline ==
    /\ pc = "summarize"
    /\ route = "run"
    /\ invoked' = <<"summarizer", "plagiarism", "validate_citations", "critique">>
    /\ plagiarism' = 100 * check(text)
    /\ \E status \in {201, 500} :
          response' = Respond(status, [message |-> IF status = 201 THEN "Analysis completed"
                                                   ELSE "Analysis failed"])
    /\ pc' = "done"
    /\ UNCHANGED <<route, upload, text, inputs, summary, citations, citation_results>>
    /\ UNCHANGED <<scoreVars, cacheVars, validateVars, unitVars, storeVars, uploadVars>>

Next ==
    \/ ValidateUpload
    \/ ExtractText
    \/ Summarize
    \/ DetectPlagiarism
    \/ ExtractCitations
    \/ ValidateCitations
    \/ CritiqueAndRespond
    \/ ImprovedCritiqueAndRespond
    \/ RunPipeline

Spec == Init /\ [][Next]_vars

-----------------------------------------------------------------------------
(***************************************************************************)
(* Properties of the analysis requests (specification Spec)                *)
(***************************************************************************)
AllStages == <<"summarizer", "plagiarism", "extract_citations",
               "validate_citations", "critique">>

Invoked(stage) == \E i \in DOMAIN invoked : invoked[i] = stage

\* the upload passes the handler's checks and can be read, and its text is
\* shorter than the handler's minimum
TooShortUpload ==
    /\ UploadRejection(upload, route) = NoResponse
    /\ upload.readable
    /\ Len(Strip(ExtractedText(upload)))
          < (IF route = "analyze" THEN MinTextLen ELSE MinAnalysisLen)

\* the error message of a response
Message(r) == IF "message" \in DOMAIN r.body THEN r.body.message ELSE r.body.error

UpstreamFailures == {"http_error", "timeout", "connection_error"}

\* the outcome of the lookup of the i-th citation of this request
LookupOutcome(i) == inputs.script[((i - 1) % Len(inputs.script)) + 1]

\* C3: once text extraction has succeeded, POST /analyze (routes/simple_analyze.py)
\* runs every stage in order and answers 200 whatever fails upstream: a
\* summarizer that cannot be loaded or fails yields the fallback summary, a
\* failed plagiarism lookup yields 0, a failed citation lookup yields valid = FALSE
C3_UpstreamFailuresTolerated ==
    (route = "analyze" /\ (invoked # <<>> \/ pc \notin {"validate_upload", "extract_text", "done"})) =>
        /\ invoked = SubSeq(AllStages, 1, Len(invoked))
        /\ pc = "done" => (response.status = 200 /\ invoked = AllStages)
        /\ (Invoked("summarizer") /\ inputs.model # "ok") =>
              summary = FallbackSummary(Sub(text, 1, SummaryTextLimit))
        /\ (Invoked("plagiarism") /\ inputs.plag.kind \in UpstreamFailures) =>
              plagiarism = 0
        /\ Invoked("validate_citations") =>
              \A i \in DOMAIN citation_results :
                  LookupOutcome(i).kind \in UpstreamFailures =>
                      ~citation_results[i].valid

C3_Witness ==
    /\ route = "analyze"
    /\ pc = "done"
    /\ response.status = 200
    /\ inputs.model = "load_fails"
    /\ inputs.plag.kind = "timeout"
    /\ citation_results # <<>>
    /\ \A i \in DOMAIN citation_results : LookupOutcome(i).kind = "http_error"

NoHeader == upload.doc.kind = "pad" \/ upload.doc.header = "none"

\* the report has no citations
NoCitationsReported ==
    pc = "done" =>
        /\ response.status = 200
        /\ response.body.citations = <<>>
        /\ response.body.stats.citations_count = 0

NoKeyword(t) ==
    \A k \in DOMAIN references_patterns : ~Contains(Lower(t), references_patterns[k])

ListedUpToCap ==
    /\ UploadRejection(upload, route) = NoResponse
    /\ upload.readable
    /\ upload.doc.kind = "paper"
    /\ upload.doc.header = "References"
    /\ upload.doc.style = "numbered"
    /\ upload.doc.k <= RefCap

\* the k entries are extracted in order, validated one result each, and counted
EntriesReported ==
    /\ Invoked("extract_citations") => citations = Entries(upload.doc)
    /\ Invoked("validate_citations") =>
          /\ Len(citation_results) = upload.doc.k
          /\ \A i \in DOMAIN citation_results :
                citation_results[i].reference = Entries(upload.doc)[i]
    /\ pc = "done" =>
          /\ response.status = 200
          /\ response.body.stats.citations_count = upload.doc.k

\* C7: a "References" header followed by k <= 10 numbered entries,
\* each on its own line and longer than 20 characters, gives exactly those k
\* entries, one validation result per entry in the same order, and
\* stats.citations_count == k, whatever the search API returns
C7_EntriesCounted ==
    (route = "analyze" /\ ListedUpToCap) => EntriesReported

\* the 0-based line, counted from the header line, on which entry i stands
EntryLine(d, i) ==
    CASE d.layout = "tight"  -> i
      [] d.layout = "spaced" -> 2 * i - 1
      [] d.layout = "gapped" -> 2 * i

\* the header is the first occurrence of "references" in the text
HeaderIsFirstMention(d) ==
    Find(Lower(Render(d)), "references") = Len(Title \o Pre(d.pre))

\* the entries are reported when the header is the first occurrence of
\* "references" in the text and every entry stands on one of the first 20
\* lines counted from the header line
EntriesInWindowCounted ==
    (/\ route = "analyze"
     /\ ListedUpToCap
     /\ HeaderIsFirstMention(upload.doc)
     /\ \A i \in 1..upload.doc.k : EntryLine(upload.doc, i) < RefLineLimit)
        => EntriesReported

\* ten entries with blank lines between them and after the header: the
\* tenth stands on the 21st line and is not counted
C7_Witness ==
    /\ route = "analyze"
    /\ ListedUpToCap
    /\ upload.doc.k = RefCap
    /\ upload.doc.layout = "gapped"
    /\ HeaderIsFirstMention(upload.doc)
    /\ pc = "done"
    /\ response.status = 200
    /\ response.body.stats.citations_count = RefCap - 1

-----------------------------------------------------------------------------
(***************************************************************************)
(* The plagiarism scorers, called on texts with more or less repetition    *)
(* (specification SpecScores)                                              *)
(***************************************************************************)
MaxRepeats == 3

RepeatedSentence == "alpha beta gamma delta epsilon zeta eta. "

DistinctSentences ==
    "one two three four five six seven eight nine ten eleven twelve. "
        \o "north south east west up down left right front back top bottom. "
        \o "red orange yellow green blue indigo violet black white grey pink brown. "
        \o "monday tuesday wednesday thursday friday saturday sunday morning noon evening night dawn."

RECURSIVE Repeat(_, _)
Repeat(s, n) == IF n = 0 THEN "" ELSE s \o Repeat(s, n - 1)

\* the text with n copies of one sentence before four sentences of its own
ScoredText(sample) == Repeat(RepeatedSentence, sample.repeats) \o DistinctSentences

\* similarity levels around the noise floor and at the ends of the scale
Sims == {SimError, 0, 5000, 9999, 10000, 10001, 10004, 55554, 100000}

ShortAbstractPaper == [title |-> "Deep learning for widgets", abstract |-> "Too short."]

ScoreInputs ==
    {[outcome |-> o, sim |-> 0] :
        o \in {Ok(<<>>), Ok(<<ShortAbstractPaper>>), Fails("http_error"),
               Fails("timeout")}}
        \cup {[outcome |-> Ok(<<MatchingPaper>>), sim |-> s] : s \in Sims}

ScoresInit ==
    /\ RequestsIdle
    /\ CacheIdle
    /\ ValidatorsIdle
    /\ UnitsIdle
    /\ StoreIdle
    /\ UploadsIdle
    /\ scorer = "none"
    /\ scored \in {[repeats |-> n] : n \in 0..MaxRepeats}
    /\ score_inputs = [outcome |-> NotCalled, sim |-> 0]
    /\ reported = 0

\* PlagiarismService.detect_plagiarism(text)
CallDetectPlagiarism ==
    /\ \E in \in ScoreInputs :
          /\ score_inputs' = in
          /\ reported' = detect_plagiarism(ScoredText(scored), in.outcome, in.sim)
    /\ scorer' = "detect_plagiarism"
    /\ UNCHANGED <<scored, analyzeVars, cacheVars, validateVars, unitVars, storeVars, uploadVars>>

\* app_improved.detect_plagiarism_advanced(text)["plagiarism_score"]
CallDetectPlagiarismAdvanced ==
    /\ \E in \in ScoreInputs :
          /\ score_inputs' = in
          /\ reported' = detect_plagiarism_advanced(ScoredText(scored), in.outcome, in.sim)
    /\ scorer' = "detect_plagiarism_advanced"
    /\ UNCHANGED <<scored, analyzeVars, cacheVars, validateVars, unitVars, storeVars, uploadVars>>

\* plagiarism_service.check(text), a whole percentage
CallCheck ==
    /\ score_inputs' = [outcome |-> NotCalled, sim |-> 0]
    /\ reported' = 100 * check(ScoredText(scored))
    /\ scorer' = "check"
    /\ UNCHANGED <<scored, analyzeVars, cacheVars, validateVars, unitVars, storeVars, uploadVars>>

ScoresNext ==
    \/ CallDetectPlagiarism
    \/ CallDetectPlagiarismAdvanced
    \/ CallCheck

SpecScores == ScoresInit /\ [][ScoresNext]_vars

InRange == reported >= 0 /\ reported <= 100 * 100

AboveFloorOrZero == reported = 0 \/ reported >= NoiseFloor * 100

\* C2 as stated: the value reported by every scorer (detect_plagiarism, the
\* combined score of detect_plagiarism_advanced, the legacy check) is within
\* [0, 100], and a value below 10 is reported as exactly 0
C2_InRangeAndFloored == InRange /\ AboveFloorOrZero

\* C2 amended: the value reported by every scorer is within [0, 100]; the
\* value reported by PlagiarismService.detect_plagiarism is 0 or at least 10
C2_InRangeAndServiceFloored ==
    /\ InRange
    /\ scorer = "detect_plagiarism" => AboveFloorOrZero

C2_Witness ==
    /\ scorer = "detect_plagiarism"
    /\ score_inputs.sim = 9999
    /\ scored.repeats = 2
    /\ reported = 0

-----------------------------------------------------------------------------
(***************************************************************************)
(* The summarization model handle under app.run(threaded=True): every      *)
(* request is served by its own thread (specification SpecModelCache).     *)
(* A request reaches the model through summarizer_service._get_summarizer  *)
(* (the module-level cache) or through the SummarizerService() that        *)
(* routes/simple_analyze.py constructs for it.  Handles are numbered in    *)
(* the order pipeline(...) constructs them; 0 is no handle.                *)
(***************************************************************************)
NumRequests == 3

Threads == 1..NumRequests

CacheInit ==
    /\ RequestsIdle
    /\ ScoresIdle
    /\ ValidatorsIdle
    /\ UnitsIdle
    /\ StoreIdle
    /\ UploadsIdle
    /\ model_cache = 0
    /\ loads = 0
    /\ tpc = [t \in Threads |-> "start"]
    /\ seen = [t \in Threads |-> FALSE]
    /\ handle = [t \in Threads |-> 0]

\* _get_summarizer: "if 'summarizer' not in _model_cache"
CacheTest(t) ==
    /\ tpc[t] = "start"
    /\ seen' = [seen EXCEPT ![t] = model_cache # 0]
    /\ tpc' = [tpc EXCEPT ![t] = IF model_cache # 0 THEN "return" ELSE "load"]
    /\ UNCHANGED <<model_cache, loads, handle, analyzeVars, scoreVars, validateVars,
                   unitVars, storeVars, uploadVars>>

\* _get_summarizer: pipeline("summarization", ...) constructs a handle
CacheLoad(t) ==
    /\ tpc[t] = "load"
    /\ loads' = loads + 1
    /\ handle' = [handle EXCEPT ![t] = loads + 1]
    /\ tpc' = [tpc EXCEPT ![t] = "store"]
    /\ UNCHANGED <<model_cache, seen, analyzeVars, scoreVars, validateVars,
                   unitVars, storeVars, uploadVars>>

\* _get_summarizer: _model_cache['summarizer'] = the handle just constructed
CacheStore(t) ==
    /\ tpc[t] = "store"
    /\ model_cache' = handle[t]
    /\ tpc' = [tpc EXCEPT ![t] = "return"]
    /\ UNCHANGED <<loads, seen, handle, analyzeVars, scoreVars, validateVars, unitVars, storeVars, uploadVars>>

\* _get_summarizer: return _model_cache['summarizer']
CacheReturn(t) ==
    /\ tpc[t] = "return"
    /\ handle' = [handle EXCEPT ![t] = model_cache]
    /\ tpc' = [tpc EXCEPT ![t] = "done"]
    /\ UNCHANGED <<model_cache, loads, seen, analyzeVars, scoreVars, validateVars,
                   unitVars, storeVars, uploadVars>>

\* routes/simple_analyze.py: SummarizerService() starts with summarizer = None,
\* so get_summarizer constructs a handle for this request
ServiceLoad(t) ==
    /\ tpc[t] = "start"
    /\ loads' = loads + 1
    /\ handle' = [handle EXCEPT ![t] = loads + 1]
    /\ tpc' = [tpc EXCEPT ![t] = "done"]
    /\ UNCHANGED <<model_cache, seen, analyzeVars, scoreVars, validateVars,
                   unitVars, storeVars, uploadVars>>

CacheNext ==
    \E t \in Threads :
        \/ CacheTest(t)
        \/ CacheLoad(t)
        \/ CacheStore(t)
        \/ CacheReturn(t)
        \/ ServiceLoad(t)

SpecModelCache == CacheInit /\ [][CacheNext]_vars

\* C5: across any interleaving of concurrent requests the model handle is
\* constructed at most once, and every request uses that same handle
C5_ModelLoadedOnce ==
    /\ loads <= 1
    /\ \A t \in Threads : tpc[t] = "done" => handle[t] = 1

\* two requests have finished with handles of their own
C5_Witness ==
    /\ loads = 2
    /\ \E t, u \in Threads :
          /\ tpc[t] = "done" /\ tpc[u] = "done"
          /\ handle[t] # handle[u]

-----------------------------------------------------------------------------
(***************************************************************************)
(* The other citation validators                                           *)
(***************************************************************************)
\* app_simple.clean_citation
clean_citation_simple(citation) ==
    LET c == Strip(Join(Split(citation, "\n"), " "))
        quoted == Delimited(c, "\"")
        title_candidate == Strip(Split(c, ".")[1])
    IN  IF quoted.found THEN quoted.group
        ELSE IF Len(title_candidate) > MinTitleLen THEN title_candidate
        ELSE IF Len(c) > 5 THEN c ELSE ""

\* safe_api_request returns a body: every failure makes it return None
SafeRequestSucceeds(outcome) == outcome.kind = "ok"

MinResultTitleLen == 5

\* the loop "for result in data['data']" of app_simple.validate_citations: a
\* null title raises unless an earlier result already counted
RECURSIVE SimpleMatchLoop(_)
SimpleMatchLoop(papers) ==
    IF papers = <<>> THEN FALSE
    ELSE IF Head(papers).title = None THEN FALSE
    ELSE IF Len(Head(papers).title) > MinResultTitleLen THEN TRUE
    ELSE SimpleMatchLoop(Tail(papers))

\* one iteration of the loop of app_simple.validate_citations
ValidateOneSimple(citation, outcome) ==
    [reference |-> citation,
     valid |-> /\ clean_citation_simple(citation) # ""
               /\ SafeRequestSucceeds(outcome)
               /\ SimpleMatchLoop(outcome.papers)]

\* app_simple.validate_citations
validate_citations_simple(cits, script) ==
    [i \in 1..Len(Take(cits, RefCap)) |-> ValidateOneSimple(cits[i], ScriptAt(script, i))]

\* bool(citation_data.get("doi") or citation_data.get("url"))
HeuristicValid(citation_data) == citation_data.doi # None \/ citation_data.url # None

\* citations_service._validate_with_external_apis, given the outcome of its
\* request: a failed request, an undecodable body and a null title all end
\* in the heuristic
validate_with_external_apis(citation_data, outcome, json_is_request_exc) ==
    LET title == Strip(citation_data.cleaned_title)
        loop == MatchLoop(title, outcome.papers)
    IN  IF Len(title) < MinQueryLen THEN FALSE
        ELSE IF outcome.kind # "ok" THEN HeuristicValid(citation_data)
        ELSE IF loop.raised THEN HeuristicValid(citation_data)
        ELSE loop.valid

\* the loop "1) Bibliography entries" of citations_service.validate, from
\* citation_data on
validate_entries(entries, script) ==
    [i \in DOMAIN entries |->
        [raw |-> entries[i].raw, cleaned_title |-> entries[i].cleaned_title,
         doi |-> entries[i].doi, url |-> entries[i].url,
         valid |-> validate_with_external_apis(entries[i], ScriptAt(script, i),
                                               script.json_is_request_exc)]]

-----------------------------------------------------------------------------
(***************************************************************************)
(* services/citations_service_mock.py                                      *)
(***************************************************************************)
\* the length of the run of lower-case letters of s that starts at position i
LowerRun(s, i) ==
    LET stop == {j \in i..(Len(s) + 1) : j = Len(s) + 1 \/ Ch(s, j) \notin LowerLetters}
    IN  Min(stop) - i

\* the last position of the match of [A-Z][a-z]+ that starts at i, or 0
NameEnd(s, i) ==
    IF Ch(s, i) \in UpperLetters /\ LowerRun(s, i + 1) >= 1
    THEN i + LowerRun(s, i + 1) ELSE 0

\* the last position of the match of \(\d{4}\) that starts at j, or 0
YearParenEnd(s, j) ==
    IF Ch(s, j) = "(" /\ DigitRun(s, j + 1) >= 4 /\ Ch(s, j + 5) = ")"
    THEN j + 5 ELSE 0

Lit(s, j, lit) == Sub(s, j, j + Len(lit) - 1) = lit

\* the last position of the match of citation_patterns[p] that starts at i, or 0
PatternEnd(s, p, i) ==
    LET e == NameEnd(s, i)
        e2 == NameEnd(s, e + 6)
    IN  IF e = 0 THEN 0
        ELSE CASE p = 1 -> IF Lit(s, e + 1, " et al. ") THEN YearParenEnd(s, e + 9) ELSE 0
               [] p = 2 -> IF Lit(s, e + 1, " ") THEN YearParenEnd(s, e + 2) ELSE 0
               [] p = 3 -> IF Lit(s, e + 1, " and ") /\ e2 # 0 /\ Lit(s, e2 + 1, " ")
                           THEN YearParenEnd(s, e2 + 2) ELSE 0
               [] p = 4 -> IF /\ Lit(s, e + 1, ", ")
                              /\ Ch(s, e + 3) \in UpperLetters
                              /\ Lit(s, e + 4, ". ")
                           THEN YearParenEnd(s, e + 6) ELSE 0

\* re.findall(citation_patterns[p], text)
PatternMatches(s, p) ==
    LET starts == SortedSeq({i \in 1..Len(s) : PatternEnd(s, p, i) # 0})
    IN  [k \in 1..Len(starts) |-> SubSeq(s, starts[k], PatternEnd(s, p, starts[k]))]

\* the matches of the four patterns, pattern by pattern
MockMatches(s) ==
    PatternMatches(s, 1) \o PatternMatches(s, 2) \o PatternMatches(s, 3)
        \o PatternMatches(s, 4)

\* match.split(sep)[0]
UpTo(match, sep) == IF Contains(match, sep) THEN Sub(match, 1, Find(match, sep)) ELSE match

MockTitle(match) ==
    IF Contains(match, "et al")
    THEN "Research Study by " \o UpTo(match, " et al") \o " and Colleagues"
    ELSE IF Contains(match, " and ")
    THEN "Collaborative Study by " \o UpTo(match, " (")
    ELSE "Academic Paper by " \o UpTo(match, " (")

\* the values random.choice(status_options) can return
status_options == {"verified", "no_verdict", "contradicted"}

mock_citations ==
    <<[raw |-> "Smith et al. (2023)",
       cleaned_title |-> "Research Methodology in Modern Studies", status |-> "verified"],
      [raw |-> "Jones (2022)",
       cleaned_title |-> "Statistical Analysis Techniques", status |-> "verified"],
      [raw |-> "Brown and Wilson (2021)",
       cleaned_title |-> "Meta-Analysis of Research Findings", status |-> "no_verdict"]>>

\* citations_service_mock.validate, given the status drawn for each match
MockFound(matches, statuses) ==
    [i \in DOMAIN matches |->
        [raw |-> matches[i], cleaned_title |-> MockTitle(matches[i]),
         status |-> statuses[i]]]

mock_validate(t, statuses) ==
    IF t = "" THEN <<>>
    ELSE IF MockMatches(t) = <<>> THEN mock_citations
    ELSE Take(MockFound(MockMatches(t), statuses), RefCap)

-----------------------------------------------------------------------------
(***************************************************************************)
(* The validators called twice on one argument against fixed responses     *)
(* (specification SpecValidators)                                          *)
(***************************************************************************)
Validators == {"service", "legacy", "app_simple", "app_improved", "mock"}

PlainCitation == Entry("numbered", 1)
TenWordCitation ==
    "Doe, A. \"alpha beta gamma delta epsilon zeta eta theta iota kappa\". Science."

CitationLists ==
    {<<PlainCitation>>, <<TenWordCitation>>, <<PlainCitation, TenWordCitation>>,
     <<"tiny">>}

PlainTitle == "Deep learning for widgets 1"
TenWordTitle == "alpha beta gamma delta epsilon zeta eta theta iota kappa"

\* one element of the bibliography list citation_data is appended to
EntryData(raw, cleaned_title, doi, url) ==
    [raw |-> raw, cleaned_title |-> cleaned_title, doi |-> doi, url |-> url]

EntryLists ==
    {<<EntryData(PlainCitation, PlainTitle, None, None)>>,
     <<EntryData(PlainCitation, PlainTitle, "10.1000/xyz123", None)>>,
     <<EntryData(TenWordCitation, TenWordTitle, None, "https://example.org/p")>>,
     <<EntryData(PlainCitation, PlainTitle, None, None),
       EntryData(TenWordCitation, TenWordTitle, None, None)>>}

MockTexts ==
    {"", "No citations in here.", "Smith et al. (2023) and Jones (2022) agree."}

Given(v) ==
    CASE v = "legacy" -> EntryLists
      [] v = "mock"   -> MockTexts
      [] OTHER        -> CitationLists

\* titles sharing three and four of the ten words of TenWordCitation's title
ThreeOfTenPaper == [title |-> "Alpha beta gamma in unrelated prose", abstract |-> None]
FourOfTenPaper == [title |-> "Alpha beta gamma delta", abstract |-> None]

FixedResponses ==
    {Script(<<o>>, FALSE) :
        o \in Outcomes \cup {Ok(<<ThreeOfTenPaper>>), Ok(<<FourOfTenPaper>>),
                             Ok(<<OtherPaper, MatchingPaper>>)}}
        \cup {Script(<<Fails("bad_json")>>, TRUE),
              Script(<<Ok(<<MatchingPaper>>), Fails("timeout")>>, FALSE),
              Script(<<Ok(<<>>), Ok(<<FourOfTenPaper>>)>>, FALSE)}

Returned(results) == [raised |-> FALSE, results |-> results]
Raised == [raised |-> TRUE, results |-> <<>>]

ValidatorsInit ==
    /\ RequestsIdle
    /\ ScoresIdle
    /\ CacheIdle
    /\ UnitsIdle
    /\ StoreIdle
    /\ UploadsIdle
    /\ validator \in Validators
    /\ given \in Given(validator)
    /\ lookups \in IF validator = "mock" THEN {Script(<<>>, FALSE)} ELSE FixedResponses
    /\ calls = 0
    /\ runs = <<>>

\* the caller keeps what the call returned
Keep(run) ==
    /\ calls < 2
    /\ calls' = calls + 1
    /\ runs' = Append(runs, run)
    /\ UNCHANGED <<validator, given, lookups, analyzeVars, scoreVars, cacheVars,
                   unitVars, storeVars, uploadVars>>

first_run == runs[1]
second_run == runs[2]

\* CitationsService().validate_citations(citations)
CallService ==
    /\ validator = "service"
    /\ Keep(Returned(validate_citations(given, lookups)))

\* citations_service.validate: its loop over the bibliography entries
CallLegacy ==
    /\ validator = "legacy"
    /\ Keep(Returned(validate_entries(given, lookups)))

\* app_simple.validate_citations(citations)
CallAppSimple ==
    /\ validator = "app_simple"
    /\ Keep(Returned(validate_citations_simple(given, lookups)))

ImprovedRun(d) == IF FormattingRaises(d) THEN Raised ELSE Returned(FormatCitations(d))

\* app_improved.validate_citations(citations) and the formatting of its
\* result in analyze_paper
CallAppImproved ==
    /\ validator = "app_improved"
    /\ Keep(ImprovedRun(validate_citations_improved(given, lookups)))

\* citations_service_mock.validate(text): random.choice draws a status for
\* every match
CallMock ==
    /\ validator = "mock"
    /\ \E statuses \in [1..Len(MockMatches(given)) -> status_options] :
          Keep(Returned(mock_validate(given, statuses)))

ValidatorsNext ==
    \/ CallService
    \/ CallLegacy
    \/ CallAppSimple
    \/ CallAppImproved
    \/ CallMock

SpecValidators == ValidatorsInit /\ [][ValidatorsNext]_vars

QueryWords(i) ==
    CASE validator = "service"    -> WordSet(clean_citation(given[i]))
      [] validator = "app_simple" -> WordSet(clean_citation_simple(given[i]))
      [] validator = "legacy"     -> WordSet(Strip(given[i].cleaned_title))

\* the lookup for the i-th citation was made and returned candidates with titles
LookupSucceeded(i) ==
    /\ ScriptAt(lookups, i).kind = "ok"
    /\ \A j \in DOMAIN ScriptAt(lookups, i).papers :
          ScriptAt(lookups, i).papers[j].title # None
    /\ IF validator = "app_simple" THEN clean_citation_simple(given[i]) # ""
       ELSE IF validator = "service" THEN Len(clean_citation(given[i])) >= MinQueryLen
       ELSE Len(Strip(given[i].cleaned_title)) >= MinQueryLen

\* some candidate title holds more than 0.3 of the query's words
SomeCandidateAbove(i) ==
    \E j \in DOMAIN ScriptAt(lookups, i).papers :
        OverlapDen * Cardinality(QueryWords(i)
                                   \cap WordSet(ScriptAt(lookups, i).papers[j].title))
            > OverlapNum * Cardinality(QueryWords(i))

\* C9: a citation whose lookup succeeded is valid if and only if some
\* returned candidate title has a word-overlap ratio strictly greater than
\* 0.3; candidates at or below 0.3 do not make it valid
C9_ValidIffOverlapAbove ==
    (calls >= 1 /\ validator \in {"service", "legacy", "app_simple"}) =>
        \A i \in DOMAIN first_run.results :
            LookupSucceeded(i) => (first_run.results[i].valid <=> SomeCandidateAbove(i))

\* app_simple reports a citation valid on a candidate that shares no word
C9_Witness ==
    /\ calls >= 1
    /\ validator = "app_simple"
    /\ \E i \in DOMAIN first_run.results :
          LookupSucceeded(i) /\ first_run.results[i].valid /\ ~SomeCandidateAbove(i)

\* every lookup of the call fails
AllLookupsFail ==
    \A j \in DOMAIN lookups.outcomes : lookups.outcomes[j].kind \in FailureKinds

\* C10: when the lookups fail (timeout, connection or HTTP error, malformed
\* response) validation does not raise to its caller, it returns one result
\* for every citation, and no citation is reported as valid
C10_FailedLookupNeverValid ==
    (calls >= 1 /\ validator # "mock" /\ AllLookupsFail) =>
        /\ ~first_run.raised
        /\ Len(first_run.results) = Len(given)
        /\ \A i \in DOMAIN first_run.results : ~first_run.results[i].valid

\* a failed lookup reported as valid
C10_Witness ==
    /\ calls >= 1
    /\ validator = "app_improved"
    /\ AllLookupsFail
    /\ \E i \in DOMAIN first_run.results : first_run.results[i].valid

-----------------------------------------------------------------------------
(***************************************************************************)
(* services/critique_service.py: CritiqueService.  A dict of the code is a *)
(* record here, and a dict whose keys depend on the text is a sequence of  *)
(* records in the order the keys are inserted.  A score is kept in tenths  *)
(* of a point, the precision round(x, 1) leaves: Points(85) is 85.0.       *)
(***************************************************************************)
Points(n) == 10 * n

Smaller(a, b) == IF a < b THEN a ELSE b
Larger(a, b) == IF a > b THEN a ELSE b

\* [kw for kw in terms if kw in t]
Found(terms, t) == SelectSeq(terms, LAMBDA kw : Contains(t, kw))

\* str.count(p): the occurrences of p in s that do not overlap, left to right
RECURSIVE Count(_, _)
Count(s, p) ==
    LET i == Find(s, p)
    IN  IF i = -1 THEN 0 ELSE 1 + Count(From(s, i + Len(p)), p)

\* sum(t.count(term) for term in terms)
RECURSIVE CountAll(_, _)
CountAll(terms, t) ==
    IF terms = <<>> THEN 0 ELSE Count(t, Head(terms)) + CountAll(Tail(terms), t)

\* sum(seq)
RECURSIVE Sum(_)
Sum(seq) == IF seq = <<>> THEN 0 ELSE Head(seq) + Sum(Tail(seq))

\* the lists concatenated, in order
RECURSIVE Flatten(_)
Flatten(lists) == IF lists = <<>> THEN <<>> ELSE Head(lists) \o Flatten(Tail(lists))

methodology_frameworks ==
    << [name |-> "experimental",
        keywords |-> <<"experiment", "trial", "randomized", "control group",
                       "treatment", "intervention">>],
       [name |-> "survey",
        keywords |-> <<"survey", "questionnaire", "cross-sectional",
                       "longitudinal", "cohort">>],
       [name |-> "qualitative",
        keywords |-> <<"interview", "focus group", "ethnography", "case study",
                       "grounded theory", "thematic analysis">>],
       [name |-> "quantitative",
        keywords |-> <<"statistical", "regression", "correlation", "anova",
                       "t-test", "chi-square">>],
       [name |-> "mixed_methods",
        keywords |-> <<"mixed methods", "triangulation", "concurrent",
                       "sequential">>],
       [name |-> "systematic_review",
        keywords |-> <<"systematic review", "meta-analysis", "literature review",
                       "scoping review">>] >>

statistical_terms ==
    << <<"sample size", "power analysis", "n =", "participants", "subjects">>,
       <<"p-value", "p <", "significant", "alpha", "confidence interval">>,
       <<"effect size", "cohen's d", "eta squared", "r squared", "odds ratio">>,
       <<"normality", "homogeneity", "independence", "linearity", "assumptions">> >>

argument_patterns ==
    << [name |-> "strong_claims",
        patterns |-> <<"proves", "demonstrates", "confirms", "establishes",
                       "validates">>],
       [name |-> "weak_claims",
        patterns |-> <<"suggests", "indicates", "implies", "appears", "seems",
                       "may indicate">>],
       [name |-> "causal_language",
        patterns |-> <<"causes", "results in", "leads to", "due to", "because of">>],
       [name |-> "correlation_language",
        patterns |-> <<"associated with", "related to", "correlated", "linked to">>] >>

confirmation_bias == <<"as expected", "predictably", "obviously", "naturally">>

bias_indicators ==
    << [name |-> "selection_bias",
        indicators |-> <<"convenience sample", "voluntary", "self-selected",
                         "opted in">>],
       [name |-> "confirmation_bias", indicators |-> confirmation_bias],
       [name |-> "publication_bias",
        indicators |-> <<"negative results", "null findings", "non-significant">>],
       [name |-> "reporting_bias",
        indicators |-> <<"data not shown", "results omitted",
                         "selective reporting">>] >>

methodology_keywords ==
    Flatten([i \in DOMAIN methodology_frameworks |-> methodology_frameworks[i].keywords])

bias_terms == confirmation_bias \o <<"clearly", "obviously", "undoubtedly">>

\* int(s) for a string of decimal digits
RECURSIVE ParseInt(_)
ParseInt(s) ==
    IF s = "" THEN 0
    ELSE 10 * ParseInt(SubSeq(s, 1, Len(s) - 1)) + Find("0123456789", Ch(s, Len(s)))

\* the first 1-based index from i on that holds no whitespace (\s*)
RECURSIVE SkipSpaces(_, _)
SkipSpaces(t, i) == IF Ch(t, i) \in Spaces THEN SkipSpaces(t, i + 1) ELSE i

\* the digits that start at 1-based i (\d+), "" when there is none
RECURSIVE DigitsAt(_, _)
DigitsAt(t, i) == IF Ch(t, i) \in Digits THEN Ch(t, i) \o DigitsAt(t, i + 1) ELSE ""

\* what n\s*=\s*(\d+) captures when it is tried at 1-based i, "" when it fails
NEqualsAt(t, i) ==
    IF Ch(t, i) # "n" \/ Ch(t, SkipSpaces(t, i + 1)) # "=" THEN ""
    ELSE DigitsAt(t, SkipSpaces(t, SkipSpaces(t, i + 1) + 1))

\* re.findall(r'n\s*=\s*(\d+)', t), as numbers
NEquals(t) ==
    LET at == SortedSeq({i \in 1..Len(t) : NEqualsAt(t, i) # ""})
    IN  [k \in 1..Len(at) |-> ParseInt(NEqualsAt(t, at[k]))]

\* whether \s+word matches at 1-based i
SpacesThen(t, i, word) ==
    /\ Ch(t, i) \in Spaces
    /\ StartsWith(From(t, SkipSpaces(t, i) - 1), word)

\* re.findall(r'(\d+)\s+word', t), as numbers
NumbersBefore(t, word) ==
    LET starts == {i \in 1..Len(t) : Ch(t, i) \in Digits /\ Ch(t, i - 1) \notin Digits}
        at == SortedSeq({i \in starts : SpacesThen(t, i + Len(DigitsAt(t, i)), word)})
    IN  [k \in 1..Len(at) |-> ParseInt(DigitsAt(t, at[k]))]

\* the 1-based index of the first digit of s, 0 when it has none
FirstDigit(s) ==
    LET at == {i \in 1..Len(s) : Ch(s, i) \in Digits}
    IN  IF at = {} THEN 0 ELSE Min(at)

\* re.findall(r'sample size.*?(\d+)', t), as numbers: the first number after
\* each mention on the same line, the search resuming after the number
RECURSIVE AfterMention(_)
NumbersAfter(rest, d) ==
    IF d = 0 THEN AfterMention(rest)
    ELSE <<ParseInt(DigitsAt(rest, d))>>
            \o AfterMention(From(rest, d - 1 + Len(DigitsAt(rest, d))))
AfterMention(t) ==
    IF ~Contains(t, "sample size") THEN <<>>
    ELSE NumbersAfter(From(t, Find(t, "sample size") + Len("sample size")),
                      FirstDigit(Split(From(t, Find(t, "sample size")
                                                  + Len("sample size")), "\n")[1]))

Adequate == 30

\* CritiqueService._analyze_methodology_advanced
FrameworkFound(t, f) ==
    [framework |-> f.name, keywords_found |-> Found(f.keywords, t),
     strength |-> Len(Found(f.keywords, t)) * 20]
MethodologyOf(t, frameworks, sizes, stats) ==
    [methodology_frameworks_detected |-> [i \in DOMAIN frameworks |-> frameworks[i].framework],
     framework_analysis |-> frameworks,
     sample_size_analysis |->
        [sizes_found |-> sizes,
         adequate |-> sizes # <<>> /\ \E i \in DOMAIN sizes : sizes[i] > Adequate],
     statistical_rigor |-> [terms_found |-> stats, count |-> Len(stats)],
     methodology_quality_score |->
        Points(Smaller(100, Len(frameworks) * 25 + Len(stats) * 5))]
analyze_methodology_advanced(txt) ==
    MethodologyOf(Lower(txt),
        SelectSeq([i \in DOMAIN methodology_frameworks |->
                      FrameworkFound(Lower(txt), methodology_frameworks[i])],
                  LAMBDA f : f.keywords_found # <<>>),
        NEquals(Lower(txt)) \o AfterMention(Lower(txt))
            \o NumbersBefore(Lower(txt), "participants"),
        Flatten([i \in DOMAIN statistical_terms |->
                    Found(statistical_terms[i], Lower(txt))]))

\* CritiqueService._evaluate_arguments_advanced
evidence_keywords ==
    <<"data", "evidence", "results", "findings", "analysis", "study", "research">>
logical_connectors ==
    <<"therefore", "thus", "consequently", "because", "since", "as a result">>
ClaimFound(t, c) ==
    [claim_type |-> c.name, patterns_found |-> Found(c.patterns, t),
     count |-> Len(Found(c.patterns, t))]
\* evidence: the evidence count; strong: max(strong_claims, 1); flow: the
\* logical flow count.  The ratio is kept in hundredths (round(x, 2)).
ArgumentsOf(claims, evidence, strong, flow) ==
    [claim_strength_analysis |-> claims,
     evidence_support_ratio |-> RoundDiv(evidence * 100, strong),
     logical_flow_indicators |-> flow,
     argument_quality_score |->
        Smaller(Points(100), RoundDiv((evidence * 10 + flow * 5 * strong) * 10, strong))]
evaluate_arguments_advanced(txt) ==
    ArgumentsOf(SelectSeq([i \in DOMAIN argument_patterns |->
                              ClaimFound(Lower(txt), argument_patterns[i])],
                          LAMBDA c : c.patterns_found # <<>>),
                CountAll(evidence_keywords, Lower(txt)),
                Larger(Len(Found(argument_patterns[1].patterns, Lower(txt))), 1),
                CountAll(logical_connectors, Lower(txt)))

\* CritiqueService._detect_bias_comprehensive
subjective_terms == <<"obviously", "clearly", "undoubtedly", "certainly", "definitely">>
objective_terms == <<"suggests", "indicates", "appears", "may", "could", "possibly">>
stat_bias_indicators ==
    <<"cherry-picking", "p-hacking", "data dredging", "selective reporting">>
BiasFound(t, b) ==
    [bias_type |-> b.name, indicators_found |-> Found(b.indicators, t),
     severity |-> IF Len(Found(b.indicators, t)) > 2 THEN "High"
                  ELSE IF Len(Found(b.indicators, t)) > 1 THEN "Medium" ELSE "Low",
     impact_score |-> Len(Found(b.indicators, t)) * 15]
\* overall: the overall bias score; the ratio is kept in hundredths
BiasOf(t, biases, overall, subjective, objective) ==
    [bias_types_analysis |-> biases,
     language_objectivity |->
        [ratio |-> RoundDiv(objective * 100, Larger(subjective + objective, 1)),
         assessment |-> IF objective * 10 > 6 * Larger(subjective + objective, 1)
                        THEN "Good" ELSE "Needs improvement"],
     statistical_bias_indicators |-> Found(stat_bias_indicators, t),
     overall_bias_risk |-> IF overall > 80 THEN "Low"
                           ELSE IF overall > 60 THEN "Medium" ELSE "High",
     bias_score |-> Points(Larger(0, overall))]
BiasesFound(t) ==
    SelectSeq([i \in DOMAIN bias_indicators |-> BiasFound(t, bias_indicators[i])],
              LAMBDA b : b.indicators_found # <<>>)
detect_bias_comprehensive(txt) ==
    BiasOf(Lower(txt), BiasesFound(Lower(txt)),
           100 - Sum([i \in DOMAIN BiasesFound(Lower(txt)) |->
                         Len(BiasesFound(Lower(txt))[i].indicators_found) * 10]),
           CountAll(subjective_terms, Lower(txt)),
           CountAll(objective_terms, Lower(txt)))

\* CritiqueService._assess_validity_comprehensive
internal_indicators ==
    <<"control group", "randomization", "blinding", "confounding variables">>
external_indicators ==
    <<"generalizability", "population", "representative sample", "external validity">>
construct_indicators ==
    <<"validity", "measurement", "instrument", "reliable", "correlation">>
statistical_indicators ==
    <<"power analysis", "effect size", "confidence interval", "significance level">>
Validity(found, each, strong, moderate) ==
    [indicators_found |-> found, score |-> Points(Len(found) * each),
     assessment |-> IF Len(found) > strong THEN "Strong"
                    ELSE IF Len(found) > moderate THEN "Moderate" ELSE "Weak"]
\* total: the sum of the four scores, in tenths
ValidityOf(scores, total) ==
    [validity_analysis |-> scores,
     overall_validity_score |-> Smaller(Points(100), RoundDiv(total, 4)),
     validity_grade |-> IF total > 4 * Points(80) THEN "A"
                        ELSE IF total > 4 * Points(60) THEN "B"
                        ELSE IF total > 4 * Points(40) THEN "C" ELSE "D"]
ValidityScores(t) ==
    [internal_validity |-> Validity(Found(internal_indicators, t), 25, 2, 0),
     external_validity |-> Validity(Found(external_indicators, t), 25, 2, 0),
     construct_validity |-> Validity(Found(construct_indicators, t), 20, 3, 1),
     statistical_validity |-> Validity(Found(statistical_indicators, t), 25, 2, 0)]
TotalValidity(v) ==
    v.internal_validity.score + v.external_validity.score
        + v.construct_validity.score + v.statistical_validity.score
assess_validity_comprehensive(txt) ==
    ValidityOf(ValidityScores(Lower(txt)), TotalValidity(ValidityScores(Lower(txt))))

\* CritiqueService._evaluate_significance_testing, for ASCII text
statistical_tests ==
    << [name |-> "t_test", indicators |-> <<"t-test", "t test", "student's t">>],
       [name |-> "anova", indicators |-> <<"anova", "analysis of variance">>],
       [name |-> "chi_square", indicators |-> <<"chi-square", "chi square">>],
       [name |-> "regression", indicators |-> <<"regression", "linear model">>],
       [name |-> "correlation", indicators |-> <<"correlation", "pearson", "spearman">>],
       [name |-> "non_parametric",
        indicators |-> <<"mann-whitney", "wilcoxon", "kruskal-wallis">>] >>
effect_size_terms ==
    <<"effect size", "cohen's d", "eta squared", "r squared", "odds ratio">>
ci_indicators == <<"confidence interval", "ci", "95% ci", "99% ci">>

\* the 1-based index after p\s*[<>=]\s* tried at 1-based i, 0 when it fails
AfterComparison(t, i) ==
    IF Ch(t, i) = "p" /\ Ch(t, SkipSpaces(t, i + 1)) \in {"<", ">", "="}
    THEN SkipSpaces(t, SkipSpaces(t, i + 1) + 1)
    ELSE 0
\* whether 0\.\d+, \.\d+ and \d+\.\d+ match at 1-based j
ZeroPoint(t, j) == Ch(t, j) = "0" /\ Ch(t, j + 1) = "." /\ Ch(t, j + 2) \in Digits
BarePoint(t, j) == Ch(t, j) = "." /\ Ch(t, j + 1) \in Digits
AnyPoint(t, j) ==
    /\ Ch(t, j) \in Digits
    /\ Ch(t, j + Len(DigitsAt(t, j))) = "."
    /\ Ch(t, j + Len(DigitsAt(t, j)) + 1) \in Digits
\* the number of matches of the three p-value patterns together
PValues(t) ==
    Cardinality({i \in 1..Len(t) : AfterComparison(t, i) # 0
                                      /\ ZeroPoint(t, AfterComparison(t, i))})
    + Cardinality({i \in 1..Len(t) : AfterComparison(t, i) # 0
                                        /\ BarePoint(t, AfterComparison(t, i))})
    + Cardinality({i \in 1..Len(t) : AfterComparison(t, i) # 0
                                        /\ AnyPoint(t, AfterComparison(t, i))})
SignificanceOf(tests, p_values, effect_sizes, ci_found, score) ==
    [statistical_tests_found |-> tests, p_values_reported |-> p_values,
     effect_sizes_reported |-> effect_sizes, confidence_intervals |-> ci_found,
     score |-> Points(score),
     assessment |-> IF score > 80 THEN "Comprehensive"
                    ELSE IF score > 50 THEN "Adequate" ELSE "Insufficient"]
TestsFound(t) ==
    LET hit == SelectSeq(statistical_tests, LAMBDA x : Found(x.indicators, t) # <<>>)
    IN  [i \in DOMAIN hit |-> hit[i].name]
SignificanceScore(tests, p_values, effect_sizes, ci_found) ==
    Smaller(100, tests * 25 + p_values * 15 + effect_sizes * 20
                    + (IF ci_found THEN 30 ELSE 0))
evaluate_significance_testing(t) ==
    SignificanceOf(TestsFound(t), PValues(t), Found(effect_size_terms, t),
                   Found(ci_indicators, t) # <<>>,
                   SignificanceScore(Len(TestsFound(t)), PValues(t),
                                     Len(Found(effect_size_terms, t)),
                                     Found(ci_indicators, t) # <<>>))

\* CritiqueService._assess_sample_size_adequacy
power_indicators ==
    <<"power analysis", "power calculation", "statistical power", "beta">>
justification_terms ==
    <<"sample size justification", "power", "effect size", "alpha level">>
LargeSample == 100
MaxOf(seq) == Max(Range(seq))
\* largest: max(sample_sizes), 0 when there is none; total: the total score
\* in tenths
SampleSizeOf(sizes, largest, power, justification, total) ==
    [sample_sizes_found |-> sizes, largest_sample |-> largest,
     sample_adequacy |-> IF sizes = <<>> THEN "Not reported"
                         ELSE IF largest > LargeSample THEN "Large"
                         ELSE IF largest > Adequate THEN "Medium" ELSE "Small",
     power_analysis_mentioned |-> power, justification_level |-> justification,
     score |-> total,
     assessment |-> IF total > Points(80) THEN "Strong"
                    ELSE IF total > Points(50) THEN "Moderate" ELSE "Weak"]
AdequacyScore(sizes) ==
    IF sizes = <<>> THEN 0
    ELSE IF MaxOf(sizes) > LargeSample THEN 100
    ELSE IF MaxOf(sizes) > Adequate THEN 70 ELSE 30
\* adequacy_score * 0.6 + power_score + justification_score, in tenths
SampleTotal(sizes, power, justification) ==
    AdequacyScore(sizes) * 6 + Points(IF power THEN 30 ELSE 0)
        + Points(Smaller(40, justification * 10))
SampleSizes(t) ==
    NEquals(t) \o AfterMention(t) \o NumbersBefore(t, "participants")
        \o NumbersBefore(t, "subjects")
SampleSizeGiven(t, sizes) ==
    SampleSizeOf(sizes, IF sizes = <<>> THEN 0 ELSE MaxOf(sizes),
                 Found(power_indicators, t) # <<>>,
                 CountAll(justification_terms, t),
                 SampleTotal(sizes, Found(power_indicators, t) # <<>>,
                             CountAll(justification_terms, t)))
assess_sample_size_adequacy(t) == SampleSizeGiven(t, SampleSizes(t))

\* CritiqueService._check_statistical_assumptions
assumptions ==
    << <<"normality", "normal distribution", "shapiro-wilk", "kolmogorov-smirnov">>,
       <<"homogeneity", "equal variances", "levene", "bartlett">>,
       <<"independence", "independent observations", "autocorrelation">>,
       <<"linearity", "linear relationship", "scatterplot">>,
       <<"multicollinearity", "vif", "tolerance">> >>
general_assumption_terms == <<"assumptions", "violated", "met", "checked", "tested">>
AssumptionsOf(checked, count, mentions, score) ==
    [assumptions_checked |->
        [normality |-> checked[1], homogeneity |-> checked[2],
         independence |-> checked[3], linearity |-> checked[4],
         multicollinearity |-> checked[5]],
     assumptions_count |-> count, general_assumption_discussion |-> mentions,
     score |-> Points(score),
     assessment |-> IF score > 70 THEN "Thorough"
                    ELSE IF score > 30 THEN "Partial" ELSE "Minimal"]
AssumptionsChecked(t) == [i \in DOMAIN assumptions |-> Found(assumptions[i], t) # <<>>]
AssumptionsCount(t) == Len(SelectSeq(AssumptionsChecked(t), LAMBDA found : found))
check_statistical_assumptions(t) ==
    AssumptionsOf(AssumptionsChecked(t), AssumptionsCount(t),
                  CountAll(general_assumption_terms, t),
                  Smaller(100, AssumptionsCount(t) * 20
                                  + CountAll(general_assumption_terms, t) * 5))

\* CritiqueService._analyze_statistical_quality
StatisticalOf(significance, sample, assumed) ==
    [statistical_analysis |->
        [significance_testing |-> significance, sample_size_adequacy |-> sample,
         statistical_assumptions |-> assumed,
         overall_statistical_score |->
            RoundDiv(significance.score + sample.score + assumed.score, 3)]]
analyze_statistical_quality(txt) ==
    StatisticalOf(evaluate_significance_testing(Lower(txt)),
                  assess_sample_size_adequacy(Lower(txt)),
                  check_statistical_assumptions(Lower(txt)))

\* str.split(sep) for a separator of any length
RECURSIVE SplitOn(_, _)
SplitOn(s, sep) ==
    IF ~Contains(s, sep) THEN <<s>>
    ELSE <<SubSeq(s, 1, Find(s, sep))>> \o SplitOn(From(s, Find(s, sep) + Len(sep)), sep)

\* CritiqueService._analyze_structure_coherence
section_keywords ==
    << [name |-> "title", keywords |-> <<"title", "research", "study", "analysis">>],
       [name |-> "abstract", keywords |-> <<"abstract", "summary">>],
       [name |-> "introduction", keywords |-> <<"introduction", "background">>],
       [name |-> "methods", keywords |-> <<"method", "methodology", "approach">>],
       [name |-> "results", keywords |-> <<"results", "findings", "outcomes">>],
       [name |-> "discussion",
        keywords |-> <<"discussion", "analysis", "interpretation">>],
       [name |-> "conclusion",
        keywords |-> <<"conclusion", "summary", "implications">>] >>
coherence_words ==
    <<"therefore", "however", "furthermore", "moreover", "consequently", "thus">>
MinSectionLen == 50
\* the types of the section: the first whose keywords it holds, if it is
\* long enough
SectionTypes(section) ==
    LET hit == SelectSeq(section_keywords,
                         LAMBDA k : Found(k.keywords, Lower(section)) # <<>>
                                       /\ Len(section) > MinSectionLen)
    IN  IF hit = <<>> THEN <<>> ELSE <<hit[1].name>>
StructureOf(found, coherence, score) ==
    [sections_found |-> found, coherence_indicators |-> coherence,
     score |-> Points(score),
     assessment |-> IF score > 70 THEN "Good"
                    ELSE IF score > 50 THEN "Moderate" ELSE "Poor"]
SectionsFound(txt) ==
    Flatten([i \in DOMAIN SplitOn(txt, "\n\n") |-> SectionTypes(SplitOn(txt, "\n\n")[i])])
analyze_structure_coherence(txt) ==
    StructureOf(SectionsFound(txt), CountAll(coherence_words, Lower(txt)),
                Smaller(100, Len(SectionsFound(txt)) * 12
                                + CountAll(coherence_words, Lower(txt)) * 3))

\* CritiqueService._evaluate_argument_flow
flow_indicators ==
    << <<"because", "since", "due to", "as a result", "therefore">>,
       <<"however", "but", "although", "despite", "nevertheless">>,
       <<"furthermore", "moreover", "additionally", "also", "in addition">>,
       <<"first", "second", "then", "next", "finally", "subsequently">> >>
evidence_words == <<"data", "evidence", "study", "research", "analysis", "results">>
MinParagraphLen == 100
\* a fraction num / den, and the sum of a sequence of them
Fraction(n, d) == [num |-> n, den |-> d]
RECURSIVE SumFractions(_)
SumFractions(fs) ==
    IF fs = <<>> THEN Fraction(0, 1)
    ELSE Fraction(Head(fs).num * SumFractions(Tail(fs)).den
                      + SumFractions(Tail(fs)).num * Head(fs).den,
                  Head(fs).den * SumFractions(Tail(fs)).den)
\* the evidence density of each substantial paragraph
EvidenceDensity(txt) ==
    LET long == SelectSeq(SplitOn(txt, "\n\n"), LAMBDA para : Len(para) > MinParagraphLen)
    IN  [i \in DOMAIN long |->
            Fraction(CountAll(evidence_words, Lower(long[i])),
                     Larger(Len(SplitWs(long[i])), 1))]
\* statistics.mean(densities), 0 for none
MeanDensity(densities) ==
    IF densities = <<>> THEN Fraction(0, 1)
    ELSE Fraction(SumFractions(densities).num,
                  SumFractions(densities).den * Len(densities))
\* counts: the count of each category; avg: the average evidence density
\* (kept in ten-thousandths, round(x, 4)); score: the flow score in tenths
FlowOf(counts, avg, score) ==
    [logical_connectors |->
        [causal |-> counts[1], contrast |-> counts[2], addition |-> counts[3],
         sequence |-> counts[4]],
     total_flow_indicators |-> Sum(counts),
     evidence_density |-> RoundDiv(avg.num * 10000, avg.den),
     score |-> score,
     assessment |-> IF score > Points(70) THEN "Strong"
                    ELSE IF score > Points(40) THEN "Moderate" ELSE "Weak"]
\* min(100, total * 5 + avg * 1000), rounded to tenths
FlowScore(total, avg) ==
    Smaller(Points(100), RoundDiv((total * 5 * avg.den + avg.num * 1000) * 10, avg.den))
FlowCounts(t) == [i \in DOMAIN flow_indicators |-> CountAll(flow_indicators[i], t)]
evaluate_argument_flow(txt) ==
    FlowOf(FlowCounts(Lower(txt)), MeanDensity(EvidenceDensity(txt)),
           FlowScore(Sum(FlowCounts(Lower(txt))), MeanDensity(EvidenceDensity(txt))))

\* CritiqueService._assess_abstract_quality
AbstractWindow == 800
IdealLow == 150
IdealHigh == 300
IdealWords == 225
Abs(n) == IF n < 0 THEN 0 - n ELSE n
Truths(flags) == Len(SelectSeq(flags, LAMBDA f : f))
AbstractComponents(a) ==
    << Found(<<"background", "context", "problem">>, a) # <<>>,
       Found(<<"objective", "aim", "purpose", "goal">>, a) # <<>>,
       Found(<<"method", "approach", "design", "study">>, a) # <<>>,
       Found(<<"results", "findings", "outcomes">>, a) # <<>>,
       Found(<<"conclusion", "implications", "significance">>, a) # <<>> >>
LengthScore(word_count) ==
    IF IdealLow <= word_count /\ word_count <= IdealHigh THEN 100
    ELSE Larger(0, 100 - Abs(word_count - IdealWords) * 2)
\* score: (component_score + length_score) / 2, in tenths
AbstractOf(components, word_count, component_score, length_score, score) ==
    [components |->
        [background |-> components[1], objective |-> components[2],
         methods |-> components[3], results |-> components[4],
         conclusion |-> components[5]],
     word_count |-> word_count, component_score |-> component_score,
     length_appropriateness |-> length_score, score |-> score,
     assessment |-> IF score > Points(85) THEN "Excellent"
                    ELSE IF score > Points(70) THEN "Good"
                    ELSE IF score > Points(50) THEN "Adequate" ELSE "Poor"]
AbstractGiven(a) ==
    AbstractOf(AbstractComponents(a), Len(SplitWs(a)),
               Truths(AbstractComponents(a)) * 20, LengthScore(Len(SplitWs(a))),
               (Truths(AbstractComponents(a)) * 20 + LengthScore(Len(SplitWs(a)))) * 5)
NoAbstract == [score |-> 0, assessment |-> "No abstract found", components |-> <<>>]
assess_abstract_quality(txt) ==
    IF ~Contains(Lower(txt), "abstract") THEN NoAbstract
    ELSE AbstractGiven(Lower(Sub(txt, Find(Lower(txt), "abstract") + 1,
                                 Find(Lower(txt), "abstract") + AbstractWindow)))

\* CritiqueService._analyze_academic_writing_quality
WritingOf(structure, flow, abstract) ==
    [writing_quality_analysis |->
        [structure_coherence |-> structure, argument_flow |-> flow,
         abstract_quality |-> abstract,
         overall_writing_score |->
            RoundDiv(structure.score + flow.score + abstract.score, 3)]]
analyze_academic_writing_quality(txt) ==
    WritingOf(analyze_structure_coherence(txt), evaluate_argument_flow(txt),
              assess_abstract_quality(txt))

\* CritiqueService._extract_reference_section
ref_patterns == <<"references", "bibliography", "works cited">>
MinReferenceLen == 30
MaxReferences == 50
ReferenceLines(lines) ==
    Take(SelectSeq([i \in DOMAIN lines |-> Strip(lines[i])],
                   LAMBDA line : /\ Len(line) > MinReferenceLen
                                 /\ ~StartsWith(Lower(line), "references")
                                 /\ ~StartsWith(Lower(line), "bibliography")),
         MaxReferences)
extract_reference_section(txt) ==
    IF Found(ref_patterns, Lower(txt)) = <<>> THEN <<>>
    ELSE ReferenceLines(Tail(Split(From(txt, Find(Lower(txt),
                                                   Found(ref_patterns, Lower(txt))[1])),
                                   "\n")))

\* CritiqueService._extract_citations_advanced
Letters == UpperLetters \cup LowerLetters
\* the 1-based index after [A-Z][A-Za-z\-]+ tried at j, 0 when it fails
RECURSIVE NameRunEnd(_, _)
NameRunEnd(t, j) == IF Ch(t, j) \in Letters \cup {"-"} THEN NameRunEnd(t, j + 1) ELSE j
AuthorEnd(t, j) ==
    IF Ch(t, j) \in UpperLetters /\ Ch(t, j + 1) \in Letters \cup {"-"}
    THEN NameRunEnd(t, j + 1) ELSE 0
\* the year \d{4}[a-z]?\) gives at y as a number, -1 when it fails
YearAt(t, y) ==
    IF /\ Len(DigitsAt(t, y)) = 4
       /\ \/ Ch(t, y + 4) = ")"
          \/ Ch(t, y + 4) \in LowerLetters /\ Ch(t, y + 5) = ")"
    THEN ParseInt(DigitsAt(t, y)) ELSE -1
\* the rest of the APA pattern after an author name that ends before j
RECURSIVE AfterAuthor(_, _)
AfterAuthor(t, j) ==
    IF Ch(t, SkipSpaces(t, j)) = ","
    THEN YearAt(t, SkipSpaces(t, SkipSpaces(t, j) + 1))
    ELSE IF /\ Ch(t, SkipSpaces(t, j)) = "&"
            /\ AuthorEnd(t, SkipSpaces(t, SkipSpaces(t, j) + 1)) # 0
    THEN AfterAuthor(t, AuthorEnd(t, SkipSpaces(t, SkipSpaces(t, j) + 1)))
    ELSE -1
ApaAt(t, i) ==
    IF Ch(t, i) = "(" /\ AuthorEnd(t, i + 1) # 0
    THEN AfterAuthor(t, AuthorEnd(t, i + 1)) ELSE -1
\* the years of re.findall(apa_pattern, txt)
ApaYears(txt) ==
    LET at == SortedSeq({i \in 1..Len(txt) : ApaAt(txt, i) # -1})
    IN  [k \in 1..Len(at) |-> ApaAt(txt, at[k])]
\* re.findall(r'\[(\d+)\]', txt)
NumberedCitations(txt) ==
    LET at == SortedSeq({i \in 1..Len(txt) :
                            /\ Ch(txt, i) = "["
                            /\ DigitsAt(txt, i + 1) # ""
                            /\ Ch(txt, i + 1 + Len(DigitsAt(txt, i + 1))) = "]"})
    IN  [k \in 1..Len(at) |-> DigitsAt(txt, at[k] + 1)]
extract_citations_advanced(txt) ==
    [apa_years |-> ApaYears(txt), numbered_citations |-> NumberedCitations(txt),
     reference_list |-> extract_reference_section(txt),
     total_citations |-> Len(ApaYears(txt)) + Len(NumberedCitations(txt))
                            + Len(extract_reference_section(txt))]

\* CritiqueService._analyze_citation_patterns
current_year == 2024
RecentYears == 5
\* min(100, total / max(words, 1) * 1000 * 20) as a fraction
DistributionScore(total, words) ==
    IF total * 20000 >= 100 * words THEN Fraction(100, 1)
    ELSE Fraction(total * 20000, words)
Recent(years) == Len(SelectSeq(years, LAMBDA y : current_year - y <= RecentYears))
Ages(years) == [i \in DOMAIN years |-> current_year - years[i]]
\* density in hundredths, ratio in hundredths, age and score in tenths
PatternsOf(total, words, years, score) ==
    [citation_density |-> RoundDiv(total * 100000, words),
     total_citations |-> total,
     recent_citations_ratio |-> RoundDiv(Recent(years) * 100, Larger(Len(years), 1)),
     average_citation_age |->
        IF years = <<>> THEN 0 ELSE RoundDiv(Sum(Ages(years)) * 10, Len(years)),
     score |-> RoundDiv(score.num * 10, score.den),
     assessment |-> IF score.num > 80 * score.den THEN "Excellent"
                    ELSE IF score.num > 60 * score.den THEN "Good"
                    ELSE IF score.num > 40 * score.den THEN "Adequate" ELSE "Poor"]
\* (a + b) / 2 for two fractions
HalfSum(a, b) == Fraction(a.num * b.den + b.num * a.den, 2 * a.den * b.den)
analyze_citation_patterns(cits, txt) ==
    PatternsOf(cits.total_citations, Larger(Len(SplitWs(txt)), 1), cits.apa_years,
               HalfSum(DistributionScore(cits.total_citations,
                                         Larger(Len(SplitWs(txt)), 1)),
                       Fraction(Recent(cits.apa_years) * 100,
                                Larger(Len(cits.apa_years), 1))))

\* CritiqueService._assess_citation_impact
high_impact_journals ==
    <<"nature", "science", "cell", "lancet", "nejm", "jama", "pnas", "journal of",
      "proceedings of", "review of">>
\* high: the high-impact count; distinct: len(set(ref_list)); n: max(len, 1)
ImpactOf(high, distinct, n, score) ==
    [high_impact_citations |-> high, citation_diversity |-> distinct,
     potential_self_citations |-> 0,
     impact_ratio |-> RoundDiv(high * 100, n),
     score |-> RoundDiv(score.num * 10, score.den),
     assessment |-> IF score.num > 70 * score.den THEN "High"
                    ELSE IF score.num > 40 * score.den THEN "Medium" ELSE "Low"]
HighImpact(refs) ==
    Len(SelectSeq(refs, LAMBDA ref : Found(high_impact_journals, Lower(ref)) # <<>>))
assess_citation_impact(cits) ==
    ImpactOf(HighImpact(cits.reference_list), Cardinality(Range(cits.reference_list)),
             Larger(Len(cits.reference_list), 1),
             HalfSum(Fraction(Smaller(100, Cardinality(Range(cits.reference_list)) * 5), 1),
                     Fraction(HighImpact(cits.reference_list) * 100,
                              Larger(Len(cits.reference_list), 1))))

\* CritiqueService._validate_cross_references
\* len(re.findall(r'\bword\s+\d+', t)), or with [a-z] in place of \d+
Mentions(t, word, after) ==
    Cardinality({i \in 1..Len(t) :
                    /\ StartsWith(From(t, i - 1), word)
                    /\ Ch(t, i - 1) \notin WordChars
                    /\ Ch(t, i + Len(word)) \in Spaces
                    /\ Ch(t, SkipSpaces(t, i + Len(word))) \in after})
CrossReferencesOf(tables, figures, sections, equations, appendices, score) ==
    [table_references |-> tables, figure_references |-> figures,
     section_references |-> sections, equation_references |-> equations,
     appendix_references |-> appendices,
     total_internal_references |-> tables + figures + sections + equations + appendices,
     score |-> Points(score),
     assessment |-> IF score > 70 THEN "Comprehensive"
                    ELSE IF score > 30 THEN "Adequate" ELSE "Minimal"]
CrossReferences(t) ==
    Mentions(t, "table", Digits) + Mentions(t, "figure", Digits)
        + Mentions(t, "section", Digits) + Mentions(t, "equation", Digits)
        + Mentions(t, "appendix", LowerLetters)
validate_cross_references(txt) ==
    CrossReferencesOf(Mentions(Lower(txt), "table", Digits),
                      Mentions(Lower(txt), "figure", Digits),
                      Mentions(Lower(txt), "section", Digits),
                      Mentions(Lower(txt), "equation", Digits),
                      Mentions(Lower(txt), "appendix", LowerLetters),
                      Smaller(100, CrossReferences(Lower(txt)) * 10))

\* CritiqueService._analyze_citation_network
CitationNetworkOf(patterns, impact, cross) ==
    [citation_network_analysis |->
        [citation_patterns |-> patterns, impact_assessment |-> impact,
         cross_reference_validation |-> cross,
         overall_citation_score |->
            RoundDiv(patterns.score + impact.score + cross.score, 3)]]
analyze_citation_network(txt) ==
    CitationNetworkOf(analyze_citation_patterns(extract_citations_advanced(txt), txt),
                      assess_citation_impact(extract_citations_advanced(txt)),
                      validate_cross_references(txt))

\* CritiqueService._detect_research_gaps
gap_indicators ==
    <<"gap", "limitation", "shortcoming", "lack of", "absence of", "missing",
      "insufficient", "limited research", "few studies", "no previous",
      "understudied", "under-researched", "overlooked">>
specific_gaps ==
    <<"methodological gap", "theoretical gap", "empirical gap", "knowledge gap",
      "research gap", "literature gap">>
GapsOf(mentions, specific, score) ==
    [gap_indicators_found |-> mentions, specific_gaps_mentioned |-> specific,
     score |-> Points(score),
     assessment |-> IF score > 70 THEN "Well-identified"
                    ELSE IF score > 30 THEN "Partially identified"
                    ELSE "Poorly identified"]
detect_research_gaps(t) ==
    GapsOf(CountAll(gap_indicators, t), CountAll(specific_gaps, t),
           Smaller(100, CountAll(gap_indicators, t) * 15 + CountAll(specific_gaps, t) * 25))

\* CritiqueService._assess_research_novelty
novelty_terms ==
    <<"novel", "new", "innovative", "original", "first", "unique", "unprecedented",
      "groundbreaking", "pioneering", "cutting-edge">>
contribution_terms ==
    <<"contribution", "contributions", "advance", "advancement", "breakthrough",
      "discovery", "finding", "insight">>
innovation_terms ==
    <<"method", "approach", "technique", "framework", "model", "algorithm", "system",
      "tool", "protocol">>
NoveltyOf(claims, contributions, innovations, score) ==
    [novelty_claims |-> claims, contribution_mentions |-> contributions,
     innovation_indicators |-> innovations, score |-> Points(score),
     assessment |-> IF score > 80 THEN "Strong novelty"
                    ELSE IF score > 50 THEN "Moderate novelty" ELSE "Limited novelty"]
assess_research_novelty(t) ==
    NoveltyOf(CountAll(novelty_terms, t), CountAll(contribution_terms, t),
              CountAll(innovation_terms, t),
              Smaller(100, CountAll(novelty_terms, t) * 10
                              + CountAll(contribution_terms, t) * 15
                              + CountAll(innovation_terms, t) * 5))

\* CritiqueService._analyze_research_positioning
field_terms ==
    <<"field", "domain", "area", "discipline", "research area", "literature",
      "previous work", "existing research", "current state">>
comparison_terms ==
    <<"compared to", "in contrast to", "unlike", "different from", "similar to",
      "builds on", "extends", "improves upon">>
future_terms ==
    <<"future work", "future research", "next steps", "further study",
      "future directions", "ongoing work", "planned research">>
PositioningOf(positioning, comparisons, future, score) ==
    [field_positioning |-> positioning, comparison_with_existing |-> comparisons,
     future_directions |-> future, score |-> Points(score),
     assessment |-> IF score > 70 THEN "Well-positioned"
                    ELSE IF score > 40 THEN "Moderately positioned"
                    ELSE "Poorly positioned"]
analyze_research_positioning(t) ==
    PositioningOf(CountAll(field_terms, t), CountAll(comparison_terms, t),
                  CountAll(future_terms, t),
                  Smaller(100, CountAll(field_terms, t) * 8
                                  + CountAll(comparison_terms, t) * 15
                                  + CountAll(future_terms, t) * 20))

\* CritiqueService._analyze_literature_quality
LiteratureOf(gaps, novelty, positioning) ==
    [literature_analysis |->
        [research_gaps |-> gaps, novelty_assessment |-> novelty,
         research_positioning |-> positioning,
         overall_literature_score |->
            RoundDiv(gaps.score + novelty.score + positioning.score, 3)]]
analyze_literature_quality(txt) ==
    LiteratureOf(detect_research_gaps(Lower(txt)), assess_research_novelty(Lower(txt)),
                 analyze_research_positioning(Lower(txt)))

\* CritiqueService._assess_reproducibility
reproducibility_indicators ==
    <<"reproducible", "replicable", "data available", "code available", "open source",
      "github", "repository", "supplementary materials", "appendix",
      "detailed methods", "step-by-step", "protocol">>
data_sharing ==
    <<"data sharing", "open data", "dataset", "raw data", "supplementary data",
      "data repository", "figshare", "zenodo">>
method_detail_terms ==
    <<"procedure", "protocol", "step", "parameter", "setting", "configuration",
      "implementation", "algorithm", "formula">>
ReproducibilityOf(indicators, sharing, detail, score) ==
    [reproducibility_indicators |-> indicators, data_sharing_mentions |-> sharing,
     method_detail_level |-> detail, score |-> Points(score),
     assessment |-> IF score > 80 THEN "Highly reproducible"
                    ELSE IF score > 50 THEN "Moderately reproducible"
                    ELSE "Low reproducibility"]
assess_reproducibility(t) ==
    ReproducibilityOf(CountAll(reproducibility_indicators, t), CountAll(data_sharing, t),
                      CountAll(method_detail_terms, t),
                      Smaller(100, CountAll(reproducibility_indicators, t) * 15
                                      + CountAll(data_sharing, t) * 20
                                      + CountAll(method_detail_terms, t) * 5))

\* CritiqueService._analyze_peer_review_metrics
peer_review_indicators ==
    <<"peer review", "reviewed", "referee", "reviewer comments", "blind review",
      "double-blind", "editorial", "revision">>
quality_indicators ==
    <<"rigorous", "thorough", "comprehensive", "detailed review", "expert review",
      "independent review", "external review">>
journal_quality_terms ==
    <<"impact factor", "indexed", "scopus", "web of science", "prestigious",
      "leading journal", "top-tier">>
PeerReviewOf(mentions, quality, journal, score) ==
    [peer_review_mentions |-> mentions, quality_indicators |-> quality,
     journal_quality_hints |-> journal, score |-> Points(score),
     assessment |-> IF score > 70 THEN "High quality review"
                    ELSE IF score > 30 THEN "Standard review"
                    ELSE "Limited review indicators"]
analyze_peer_review_metrics(t) ==
    PeerReviewOf(CountAll(peer_review_indicators, t), CountAll(quality_indicators, t),
                 CountAll(journal_quality_terms, t),
                 Smaller(100, CountAll(peer_review_indicators, t) * 20
                                 + CountAll(quality_indicators, t) * 15
                                 + CountAll(journal_quality_terms, t) * 25))

\* CritiqueService._validate_reference_format
\* re.match(r'^[A-Z][a-z]+.*\(\d{4}\)', ref)
ApaFormat(ref) ==
    /\ Ch(ref, 1) \in UpperLetters
    /\ Ch(ref, 2) \in LowerLetters
    /\ \E i \in 3..Len(ref) :
          /\ Ch(ref, i) = "("
          /\ Len(DigitsAt(ref, i + 1)) >= 4
          /\ Ch(ref, i + 5) = ")"
\* re.match(r'^\[\d+\]', ref)
NumberedFormat(ref) ==
    /\ Ch(ref, 1) = "["
    /\ DigitsAt(ref, 2) # ""
    /\ Ch(ref, 2 + Len(DigitsAt(ref, 2))) = "]"
HasDoi(ref) == Contains(Lower(ref), "doi") \/ Contains(ref, "10.")
NoReferenceSection ==
    [score |-> 0, assessment |-> "No reference section found", format_consistency |-> 0]
\* the ratios in hundredths; score: consistency * 70 + doi ratio * 30 over
\* total, as a fraction
ReferenceFormatOf(total, apa, numbered, dois, score) ==
    [total_references |-> total, apa_format_count |-> apa,
     numbered_format_count |-> numbered,
     format_consistency_ratio |-> RoundDiv(Larger(apa, numbered) * 100, total),
     doi_presence_ratio |-> RoundDiv(dois * 100, total),
     score |-> RoundDiv(score.num * 10, score.den),
     assessment |-> IF score.num > 85 * score.den THEN "Excellent formatting"
                    ELSE IF score.num > 70 * score.den THEN "Good formatting"
                    ELSE "Inconsistent formatting"]
ReferenceFormatGiven(refs, apa, numbered, dois) ==
    ReferenceFormatOf(Len(refs), apa, numbered, dois,
                      Fraction(Larger(apa, numbered) * 70 + dois * 30, Len(refs)))
validate_reference_format(txt) ==
    IF extract_reference_section(txt) = <<>> THEN NoReferenceSection
    ELSE ReferenceFormatGiven(extract_reference_section(txt),
             Len(SelectSeq(extract_reference_section(txt), ApaFormat)),
             Len(SelectSeq(extract_reference_section(txt), NumberedFormat)),
             Len(SelectSeq(extract_reference_section(txt), HasDoi)))

\* CritiqueService._analyze_advanced_features
AdvancedOf(reproducibility, peer_review, reference_format) ==
    [advanced_critique_features |->
        [reproducibility_assessment |-> reproducibility,
         peer_review_metrics |-> peer_review,
         reference_format_validation |-> reference_format,
         overall_advanced_score |->
            RoundDiv(reproducibility.score + peer_review.score
                        + reference_format.score, 3)]]
analyze_advanced_features(txt) ==
    AdvancedOf(assess_reproducibility(Lower(txt)), analyze_peer_review_metrics(Lower(txt)),
               validate_reference_format(txt))

\* CritiqueService._calculate_comprehensive_score: the weighted score is
\* kept in thousandths of a point
WeightedScore(results) ==
    results.methodology_quality_score * 35 + results.argument_quality_score * 35
        + results.bias_score * 15 + results.overall_validity_score * 15
ComprehensiveOf(weighted) ==
    [overall_score |-> RoundDiv(weighted, 100),
     grade |-> IF weighted > 85000 THEN "A" ELSE IF weighted > 70000 THEN "B"
               ELSE IF weighted > 55000 THEN "C"
               ELSE IF weighted > 40000 THEN "D" ELSE "F",
     category |-> IF weighted > 85000 THEN "Excellent"
                  ELSE IF weighted > 70000 THEN "Good"
                  ELSE IF weighted > 55000 THEN "Acceptable"
                  ELSE "Needs Improvement"]
calculate_comprehensive_score(results) == ComprehensiveOf(WeightedScore(results))

\* CritiqueService._generate_academic_recommendations
MaxRecommendations == 6
Advice(needed, advice) == IF needed THEN <<advice>> ELSE <<>>
generate_academic_recommendations(results) ==
    Take(Advice(results.methodology_frameworks_detected = <<>>,
                "Clearly specify your research methodology framework (experimental, survey, qualitative, etc.)")
         \o Advice(results.methodology_quality_score < Points(50),
                   "Enhance methodology section with detailed procedures, sample size justification, and statistical approach")
         \o Advice(results.argument_quality_score < Points(50),
                   "Strengthen arguments with more evidence support and clearer logical connections")
         \o Advice(results.evidence_support_ratio < 300,
                   "Provide more empirical evidence to support your claims and conclusions")
         \o Advice(results.overall_bias_risk = "High",
                   "Reduce subjective language and acknowledge potential biases and limitations")
         \o Advice(results.validity_grade \in {"C", "D"},
                   "Address validity concerns by discussing internal/external validity and measurement reliability"),
         MaxRecommendations)

\* CritiqueService._assign_academic_grade
Graded(grade, description) == [grade |-> grade, description |-> description]
GradeOf(overall_score) ==
    IF overall_score >= Points(90) THEN Graded("A+", "Outstanding academic quality")
    ELSE IF overall_score >= Points(85) THEN Graded("A", "Excellent academic standards")
    ELSE IF overall_score >= Points(80) THEN Graded("A-", "Very good quality")
    ELSE IF overall_score >= Points(75) THEN Graded("B+", "Good academic work")
    ELSE IF overall_score >= Points(70) THEN Graded("B", "Satisfactory quality")
    ELSE IF overall_score >= Points(65)
         THEN Graded("B-", "Below average, needs improvement")
    ELSE IF overall_score >= Points(60) THEN Graded("C+", "Marginal quality")
    ELSE IF overall_score >= Points(55)
         THEN Graded("C", "Poor quality, significant issues")
    ELSE Graded("F", "Fails academic standards")
assign_academic_grade(results) == GradeOf(results.overall_assessment.overall_score)

\* CritiqueService.critique_paper, for a text that is a str: the nine
\* analyses merged into one dict, then the three entries computed from it
Analyses(txt) ==
    analyze_methodology_advanced(txt) @@ evaluate_arguments_advanced(txt)
        @@ detect_bias_comprehensive(txt) @@ assess_validity_comprehensive(txt)
        @@ analyze_academic_writing_quality(txt) @@ analyze_statistical_quality(txt)
        @@ analyze_citation_network(txt) @@ analyze_literature_quality(txt)
        @@ analyze_advanced_features(txt)
WithOverall(results) ==
    ("overall_assessment" :> calculate_comprehensive_score(results)) @@ results
WithRecommendations(results) ==
    ("academic_recommendations" :> generate_academic_recommendations(results)) @@ results
WithGrade(results) == ("quality_grade" :> assign_academic_grade(results)) @@ results
critique_paper(txt) == WithGrade(WithRecommendations(WithOverall(Analyses(txt))))

\* CritiqueService._analyze_bias_language, which critique_paper does not call
BiasPenalty == 15
MaxListed == 5
BiasLanguageOf(found_bias) ==
    [bias_language |-> Take(found_bias, MaxListed),
     bias_score |-> Points(Larger(0, 100 - Len(found_bias) * BiasPenalty)),
     bias_severity |-> IF Len(found_bias) > 3 THEN "High"
                       ELSE IF Len(found_bias) > 1 THEN "Medium" ELSE "Low"]
analyze_bias_language(txt) == BiasLanguageOf(Found(bias_terms, Lower(txt)))

\* app_simple.py: critique_paper
simple_methodology_keywords ==
    <<"sample size", "experiment", "survey", "hypothesis", "qualitative",
      "quantitative", "interview", "randomized", "methodology", "method", "analysis",
      "data">>
simple_bias_terms ==
    <<"clearly", "obviously", "undoubtedly", "without a doubt", "everyone knows",
      "we believe">>
NoMethodologyTerms == "No standard research methodology terms found."
SimpleCritiqueOf(found_keywords, found_bias) ==
    (IF found_bias = <<>> THEN <<>>
     ELSE [bias_language |-> Take(found_bias, MaxListed)])
    @@ [methodology_issues |->
            IF found_keywords = <<>> THEN NoMethodologyTerms
            ELSE "Methodology terms found: "
                    \o Join(Take(found_keywords, MaxListed), ", ") \o ".",
        suggestion |->
            IF found_keywords = <<>>
            THEN "Consider describing your research methods in detail."
            ELSE IF found_bias # <<>>
            THEN "Avoid subjective language to maintain objectivity."
            ELSE "The methodology appears sound and objective."]
simple_critique_paper(txt) ==
    SimpleCritiqueOf(Found(simple_methodology_keywords, Lower(txt)),
                     Found(simple_bias_terms, Lower(txt)))

\* app_improved.py: critique_paper
improved_methodology_keywords ==
    <<"sample size", "experiment", "survey", "hypothesis", "qualitative",
      "quantitative", "interview", "randomized", "methodology", "method", "approach",
      "data collection">>
improved_bias_terms ==
    <<"clearly", "obviously", "undoubtedly", "without a doubt", "everyone knows",
      "we believe", "it is obvious">>
stats_terms ==
    <<"p-value", "significance", "correlation", "regression", "statistical",
      "significant">>
MaxQuoted == 3
ImprovedCritiqueOf(found_keywords, found_bias, found_stats) ==
    [methodology_issues |->
        IF found_keywords = <<>>
        THEN "No standard research methodology terms found. Consider describing your research methods in detail."
        ELSE "Methodology terms found: " \o Join(found_keywords, ", ")
                \o ". Good methodological foundation.",
     bias_language |->
        IF found_bias # <<>>
        THEN "Potentially biased language detected: "
                \o Join(Take(found_bias, MaxQuoted), ", ")
                \o ". Consider using more objective language."
        ELSE "Language appears objective and unbiased.",
     statistical_rigor |->
        IF found_stats # <<>>
        THEN "Statistical terms found: " \o Join(found_stats, ", ")
                \o ". Good statistical foundation."
        ELSE "Limited statistical analysis detected. Consider adding statistical validation.",
     suggestion |->
        IF found_keywords = <<>> /\ found_bias # <<>>
        THEN "Improve methodology description and reduce subjective language."
        ELSE IF found_keywords = <<>>
        THEN "Consider describing your research methods in more detail."
        ELSE IF found_bias # <<>>
        THEN "Avoid subjective language to maintain objectivity."
        ELSE "The methodology appears sound and objective. Good work!"]
improved_critique_paper(txt) ==
    ImprovedCritiqueOf(Found(improved_methodology_keywords, Lower(txt)),
                       Found(improved_bias_terms, Lower(txt)),
                       Found(stats_terms, Lower(txt)))

-----------------------------------------------------------------------------
(***************************************************************************)
(* The critique functions called on their own.  A text is made of up to    *)
(* three sentences: one that names research methods, one that carries bias *)
(* wording, one that reports a sample.                                     *)
(***************************************************************************)
MethodSentences ==
    {"", "We ran an experiment. ",
     "We ran an experiment with a survey and a regression. "}
BiasSentences ==
    {"", "This clearly demonstrates the effect, obviously. ",
     "Participation was voluntary and negative results were kept. ",
     "As expected, the two groups differed. "}
SampleSentences ==
    {"",
     "We recruited n = 200 participants after a power analysis fixed the effect size and alpha level."}
CritiqueTexts ==
    {m \o b \o s : m \in MethodSentences, b \in BiasSentences, s \in SampleSentences}

Critics == {"CritiqueService.critique_paper", "app_simple.critique_paper",
            "app_improved.critique_paper"}

CritiqueInit ==
    /\ RequestsIdle
    /\ ScoresIdle
    /\ CacheIdle
    /\ ValidatorsIdle
    /\ UnitsIdle
    /\ StoreIdle
    /\ UploadsIdle

\* a caller hands a text to one of the critique functions
CallCritique ==
    /\ unit = "none"
    /\ \E critic \in Critics, txt \in CritiqueTexts :
          /\ unit' = critic
          /\ argument' = txt
    /\ UNCHANGED <<behaviour, effects, returned>>
    /\ UNCHANGED <<analyzeVars, scoreVars, cacheVars, validateVars, storeVars, uploadVars>>

Return(result) ==
    /\ returned = <<>>
    /\ returned' = result
    /\ UNCHANGED <<unit, argument, behaviour, effects>>
    /\ UNCHANGED <<analyzeVars, scoreVars, cacheVars, validateVars, storeVars, uploadVars>>

ServiceCritique ==
    /\ unit = "CritiqueService.critique_paper"
    /\ Return(critique_paper(argument))

SimpleCritique ==
    /\ unit = "app_simple.critique_paper"
    /\ Return(simple_critique_paper(argument))

ImprovedCritique ==
    /\ unit = "app_improved.critique_paper"
    /\ Return(improved_critique_paper(argument))

CritiqueNext ==
    \/ CallCritique
    \/ ServiceCritique
    \/ SimpleCritique
    \/ ImprovedCritique

SpecCritique == CritiqueInit /\ [][CritiqueNext]_vars

ServiceCritiqueReturned ==
    unit = "CritiqueService.critique_paper" /\ returned # <<>>

\* the case of C11: no bias term and at least three methodology terms
NoBiasThreeMethods(txt) ==
    /\ Found(bias_terms, Lower(txt)) = <<>>
    /\ Len(Found(methodology_keywords, Lower(txt))) >= 3

MethodologyTermsFound(txt) ==
    "Methodology terms found: "
        \o Join(Take(Found(methodology_keywords, Lower(txt)), MaxListed), ", ") \o "."

(***************************************************************************)
(* C11: for a text with no bias-term match and at least three methodology- *)
(* term matches, the result of critique_paper has a bias_score of at least *)
(* 85 and a methodology_issues entry that reports the matched terms.       *)
(***************************************************************************)
C11_NoBiasThreeMethodsReported ==
    (ServiceCritiqueReturned /\ NoBiasThreeMethods(argument))
        => /\ returned.bias_score >= Points(85)
           /\ "methodology_issues" \in DOMAIN returned
           /\ returned.methodology_issues = MethodologyTermsFound(argument)

\* critique_paper has returned for a text of that kind
C11_Witness == ServiceCritiqueReturned /\ NoBiasThreeMethods(argument)

\* what critique_paper does return for such a text: no methodology_issues
\* entry at all, and a bias_score that counts the indicators of every kind
C11_NoMethodologyIssuesEntry ==
    ServiceCritiqueReturned => "methodology_issues" \notin DOMAIN returned

C11_BiasScoreCountsIndicators ==
    ServiceCritiqueReturned
        => returned.bias_score =
              Points(Larger(0, 100 - 10 * Len(Found(Flatten([i \in DOMAIN bias_indicators |->
                                 bias_indicators[i].indicators]), Lower(argument)))))

\* the methodology keywords each critique function looks for
KeywordsOf(critic) ==
    IF critic = "CritiqueService.critique_paper" THEN methodology_keywords
    ELSE IF critic = "app_simple.critique_paper" THEN simple_methodology_keywords
    ELSE improved_methodology_keywords

\* the case of C12: both phrases and no methodology keyword
BiasWordingNoMethods(critic, txt) ==
    /\ Contains(txt, "clearly demonstrates")
    /\ Contains(txt, "obviously")
    /\ Found(KeywordsOf(critic), Lower(txt)) = <<>>

\* app_improved.critique_paper reports the bias wording in a sentence, the
\* others in a list
ReportsBiasWording(critic, result) ==
    /\ "bias_language" \in DOMAIN result
    /\ IF critic = "app_improved.critique_paper"
       THEN \/ Contains(result.bias_language, "clearly")
            \/ Contains(result.bias_language, "obviously")
       ELSE \/ "clearly" \in Range(result.bias_language)
            \/ "obviously" \in Range(result.bias_language)

ReportsNoMethods(result) ==
    /\ "methodology_issues" \in DOMAIN result
    /\ StartsWith(result.methodology_issues, NoMethodologyTerms)

(***************************************************************************)
(* C12: for a text that holds the phrases 'clearly demonstrates' and       *)
(* 'obviously' and no methodology keyword, the critique has a              *)
(* bias_language entry that names 'clearly' or 'obviously' and a           *)
(* methodology_issues entry that says no methodology terms were found.     *)
(***************************************************************************)
C12_BiasWordingReported ==
    (unit \in Critics /\ returned # <<>> /\ BiasWordingNoMethods(unit, argument))
        => ReportsBiasWording(unit, returned) /\ ReportsNoMethods(returned)

\* the critique of the service has returned for such a text
C12_Witness == ServiceCritiqueReturned /\ BiasWordingNoMethods(unit, argument)

\* the critique functions of the two single-file apps do report both
C12_AppsReportBiasWording ==
    (/\ unit \in {"app_simple.critique_paper", "app_improved.critique_paper"}
     /\ returned # <<>>
     /\ BiasWordingNoMethods(unit, argument))
        => ReportsBiasWording(unit, returned) /\ ReportsNoMethods(returned)

\* the critique of the service has neither entry, whatever the text
C12_ServiceHasNeitherEntry ==
    ServiceCritiqueReturned
        => /\ "bias_language" \notin DOMAIN returned
           /\ "methodology_issues" \notin DOMAIN returned

-----------------------------------------------------------------------------
(***************************************************************************)
(* services/summarizer_service.py: the module-level summarizers.  A        *)
(* summarizer returns Gave(value, inputs) or Raises(inputs), where inputs  *)
(* are the texts it handed to the sequence-to-sequence model, in order.    *)
(* The behaviour of the model for one call of a summarizer is a record:    *)
(* loads (pipeline(...) succeeds), words (the length of every summary the  *)
(* model writes) and failing (the calls of the model, counted from 1,      *)
(* that raise).                                                            *)
(***************************************************************************)
Gave(value, fed) == [raised |-> FALSE, value |-> value, inputs |-> fed]
Raises(fed) == [raised |-> TRUE, value |-> "", inputs |-> fed]

\* _split_into_sentences
SentenceStops == {".", "!", "?"}
MinSentenceChars == 10
split_into_sentences(t) ==
    SelectSeq([i \in DOMAIN Runs(t, SentenceStops, FALSE) |->
                  Strip(Runs(t, SentenceStops, FALSE)[i])],
              LAMBDA s : Len(s) > MinSentenceChars)

\* _summarize_heuristic
important_keywords ==
    <<"study", "result", "method", "conclude", "finding", "research", "analysis",
      "experiment", "data", "significant", "demonstrate", "propose", "novel",
      "approach", "framework", "model", "algorithm">>
MinScoredWords == 5
WordBudget == 200
EnoughWords == 180
EnoughSentences == 7
\* sentences.index(sentence), 0-based
IndexOf(seq, x) == Min({i \in DOMAIN seq : seq[i] = x}) - 1
LengthBonus(word_count) ==
    IF 15 <= word_count /\ word_count <= 30 THEN 2
    ELSE IF 10 <= word_count /\ word_count <= 40 THEN 1 ELSE 0
\* idx < len(sentences) * 0.2 or idx > len(sentences) * 0.8
PositionBonus(idx, n) == IF idx * 10 < n * 2 \/ idx * 10 > n * 8 THEN 1 ELSE 0
SentenceScore(sentences, s) ==
    LengthBonus(Len(SplitWs(s))) + Len(Found(important_keywords, Lower(s)))
        + PositionBonus(IndexOf(sentences, s), Len(sentences))
MaxSentenceScore == 2 + Len(important_keywords) + 1
\* sentence_scores, before it is sorted
SentenceScores(sentences) ==
    LET counted == SelectSeq(sentences, LAMBDA s : Len(SplitWs(s)) >= MinScoredWords)
    IN  [i \in DOMAIN counted |->
            [sentence |-> counted[i], words |-> Len(SplitWs(counted[i])),
             score |-> SentenceScore(sentences, counted[i])]]
\* sentence_scores.sort(key=lambda x: x[1], reverse=True): a stable sort
SortedByScore(scores) ==
    Flatten([k \in 1..(MaxSentenceScore + 1) |->
                SelectSeq(scores, LAMBDA x : x.score = MaxSentenceScore + 1 - k)])
\* the selection loop
RECURSIVE SelectSentences(_, _, _)
Selected(rest, selected, total_words) ==
    IF Len(selected) >= EnoughSentences \/ total_words >= EnoughWords THEN selected
    ELSE SelectSentences(rest, selected, total_words)
SelectSentences(scores, selected, total_words) ==
    IF scores = <<>> THEN selected
    ELSE IF total_words + Head(scores).words <= WordBudget
    THEN Selected(Tail(scores), Append(selected, Head(scores).sentence),
                  total_words + Head(scores).words)
    ELSE Selected(Tail(scores), selected, total_words)
\* ' '.join([s for s in sentences if s in selected])
InOriginalOrder(sentences, selected) ==
    Join(SelectSeq(sentences, LAMBDA s : s \in Range(selected)), " ")
SelectedOrFirst(sentences, selected) ==
    IF selected = <<>> THEN Take(sentences, FallbackSentences) ELSE selected
HeuristicOf(sentences) ==
    InOriginalOrder(sentences,
        SelectedOrFirst(sentences,
            SelectSentences(SortedByScore(SentenceScores(sentences)), <<>>, 0)))
summarize_heuristic(t) == HeuristicOf(split_into_sentences(t))

\* the summary the model writes: the given number of words
ModelWord == "gist"
WrittenSummary(words) == Join([i \in 1..words |-> ModelWord], " ")

\* _summarize_with_hf: the paragraphs gathered into chunks
chunk_size == 1000
RECURSIVE ChunkLoop(_, _, _)
ChunkLoop(paragraphs, current_chunk, chunks) ==
    IF paragraphs = <<>>
    THEN IF current_chunk # "" THEN Append(chunks, Strip(current_chunk)) ELSE chunks
    ELSE IF Len(current_chunk) + Len(Head(paragraphs)) <= chunk_size
    THEN ChunkLoop(Tail(paragraphs), current_chunk \o Head(paragraphs) \o "\n\n", chunks)
    ELSE ChunkLoop(Tail(paragraphs), Head(paragraphs) \o "\n\n",
                   IF current_chunk # "" THEN Append(chunks, Strip(current_chunk))
                   ELSE chunks)
Chunks(t) == IF Len(t) <= chunk_size THEN <<t>> ELSE ChunkLoop(SplitOn(t, "\n\n"), "", <<>>)

MinChunkLen == 50
MaxSummaryWords == 250
KeptWords == 200
MinSummarizedLen == 100
\* the summarizer called on each chunk long enough: fed are the chunks handed
\* to the model, summaries the summaries kept
FedChunks(chunks) == SelectSeq(chunks, LAMBDA c : Len(Strip(c)) >= MinChunkLen)
ChunkSummaries(fed, model) ==
    LET ok == SelectSeq([i \in DOMAIN fed |-> i], LAMBDA i : i \notin model.failing)
    IN  [k \in DOMAIN ok |-> Strip(WrittenSummary(model.words))]
\* the combined summary, summarized again when it is too long
Combined(final_summary, fed, model) ==
    IF Len(SplitWs(final_summary)) > MaxSummaryWords
    THEN Gave(Strip(IF Len(fed) + 1 \in model.failing
                    THEN Join(Take(SplitWs(final_summary), KeptWords), " ")
                    ELSE WrittenSummary(model.words)),
              Append(fed, final_summary))
    ELSE Gave(Strip(final_summary), fed)
SummarizeChunks(fed, summaries, model) ==
    IF summaries = <<>> THEN Raises(fed) ELSE Combined(Join(summaries, " "), fed, model)
SummarizeStripped(t, model) ==
    IF Len(t) < MinSummarizedLen THEN Gave(t, <<>>)
    ELSE SummarizeChunks(FedChunks(Chunks(t)), ChunkSummaries(FedChunks(Chunks(t)), model),
                         model)
summarize_with_hf(t, model) ==
    IF ~model.loads THEN Raises(<<>>) ELSE SummarizeStripped(Strip(t), model)

\* summarize_text of the module
HeuristicAfter(attempt, t) ==
    IF attempt.raised THEN Gave(summarize_heuristic(t), attempt.inputs) ELSE attempt
module_summarize_text(t, model) ==
    IF t = "" \/ Len(Strip(t)) < MinSummarizedLen THEN Gave(Strip(t), <<>>)
    ELSE HeuristicAfter(summarize_with_hf(t, model), t)

\* summarize, with use_hf and the USE_HF_SUMMARIZER setting both on
TooShortToSummarize == "Document too short to summarize effectively."
summarize(t, model) ==
    IF t = "" \/ Len(Strip(t)) < MinSummarizedLen THEN Gave(TooShortToSummarize, <<>>)
    ELSE HeuristicAfter(summarize_with_hf(t, model), t)

\* SummarizerService.summarize_text with the texts it hands to the model:
\* a pipeline that could not be loaded is replaced by fallback_summarizer,
\* and the model is never called
ServiceModel(model) ==
    IF ~model.loads THEN "load_fails"
    ELSE IF 1 \in model.failing THEN "inference_fails" ELSE "ok"
service_summarize_text(t, model) ==
    Gave(summarize_text(t, ServiceModel(model)),
         IF model.loads THEN <<Sub(t, 1, SummaryTextLimit)>> ELSE <<>>)

-----------------------------------------------------------------------------
(***************************************************************************)
(* The summarizers called on their own, each with a text and a behaviour   *)
(* of the model.                                                           *)
(***************************************************************************)
ManyWords(n, w) == Join([i \in 1..n |-> w], " ")

KeywordSentence == "The study data show a significant result for the proposed method"

\* five plain sentences, one with keywords, five more plain sentences
NarrativeText ==
    Join([i \in 1..5 |-> "Sentence number " \o ToString(i) \o " has six words."], " ")
        \o " " \o KeywordSentence \o ". "
        \o Join([i \in 1..5 |-> "Later line " \o ToString(i) \o " holds five words!"], " ")

SummaryTexts ==
    { "Too short to summarize.",
      Repeat("ab. ", 26),
      NarrativeText,
      Repeat(ManyWords(100, "word") \o ". ", 3),
      ManyWords(250, "word") \o ".",
      ManyWords(150, "para") \o ".\n\n" \o ManyWords(150, "next") \o ".",
      ManyWords(220, "para") \o ".\n\nA short closing paragraph follows here.",
      "Intro paragraph that is short enough.\n\n" \o ManyWords(100, "body") \o ".\n\n"
          \o ManyWords(110, "more") \o ".\n\n" \o ManyWords(120, "last") \o "." }

Model(ok, words, failing) == [loads |-> ok, words |-> words, failing |-> failing]
SummaryModels ==
    { Model(FALSE, 6, {}), Model(TRUE, 6, {}), Model(TRUE, 130, {}),
      Model(TRUE, 130, {4}), Model(TRUE, 6, 1..5) }

Summarizers == {"SummarizerService.summarize_text", "summarize_text", "summarize",
                "_summarize_with_hf", "_summarize_heuristic"}

SummariesInit ==
    /\ RequestsIdle
    /\ ScoresIdle
    /\ CacheIdle
    /\ ValidatorsIdle
    /\ UnitsIdle
    /\ StoreIdle
    /\ UploadsIdle

\* a caller hands a text to one of the summarizers
CallSummarizer ==
    /\ unit = "none"
    /\ \E summarizer \in Summarizers, txt \in SummaryTexts, model \in SummaryModels :
          /\ unit' = summarizer
          /\ argument' = txt
          /\ behaviour' = model
    /\ UNCHANGED <<effects, returned>>
    /\ UNCHANGED <<analyzeVars, scoreVars, cacheVars, validateVars, storeVars, uploadVars>>

\* the summarizer runs: what it fed to the model, and what it gave
Summarized(run) ==
    /\ returned = <<>>
    /\ effects' = run.inputs
    /\ returned' = [raised |-> run.raised, value |-> run.value]
    /\ UNCHANGED <<unit, argument, behaviour>>
    /\ UNCHANGED <<analyzeVars, scoreVars, cacheVars, validateVars, storeVars, uploadVars>>

ServiceSummarize ==
    /\ unit = "SummarizerService.summarize_text"
    /\ Summarized(service_summarize_text(argument, behaviour))

ModuleSummarizeText ==
    /\ unit = "summarize_text"
    /\ Summarized(module_summarize_text(argument, behaviour))

ModuleSummarize ==
    /\ unit = "summarize"
    /\ Summarized(summarize(argument, behaviour))

SummarizeWithHf ==
    /\ unit = "_summarize_with_hf"
    /\ Summarized(summarize_with_hf(argument, behaviour))

SummarizeHeuristic ==
    /\ unit = "_summarize_heuristic"
    /\ Summarized(Gave(summarize_heuristic(argument), <<>>))

SummariesNext ==
    \/ CallSummarizer
    \/ ServiceSummarize
    \/ ModuleSummarizeText
    \/ ModuleSummarize
    \/ SummarizeWithHf
    \/ SummarizeHeuristic

SpecSummaries == SummariesInit /\ [][SummariesNext]_vars

\* a summarize_text has returned with the model unavailable
FallbackReturned ==
    /\ unit \in {"SummarizerService.summarize_text", "summarize_text"}
    /\ returned # <<>>
    /\ ~behaviour.loads
    /\ Len(argument) >= MinSummarizedLen

\* the first sentences of t put together the way either fallback does it:
\* the pieces between periods joined by '. ', or the sentences joined by ' '
PrefixesOf(t) ==
    {Join(Take(Split(t, "."), k), ". ") \o "." : k \in 1..Len(Split(t, "."))}
        \cup {Join(Take(split_into_sentences(t), k), " ") :
                 k \in 1..Len(split_into_sentences(t))}

\* out is made of the first sentences of the text, or of those of the part
\* of it the service keeps
ComposedOfPrefix(out, t) ==
    out \in PrefixesOf(t) \cup PrefixesOf(Sub(t, 1, SummaryTextLimit))

(***************************************************************************)
(* C13: with the model unavailable, summarize_text on a text of at least   *)
(* 100 characters returns a non-empty string made of a prefix of the       *)
(* sentences of the text, taken verbatim.                                  *)
(***************************************************************************)
C13_FallbackIsPrefix ==
    FallbackReturned
        => /\ ~returned.raised
           /\ returned.value # ""
           /\ ComposedOfPrefix(returned.value, argument)

\* the summarize_text of the module has fallen back on the heuristic
C13_Witness == FallbackReturned /\ unit = "summarize_text"

\* the fallback of SummarizerService does what C13 says
C13_ServiceFallbackIsPrefix ==
    (FallbackReturned /\ unit = "SummarizerService.summarize_text")
        => /\ returned.value # ""
           /\ ComposedOfPrefix(returned.value, argument)


\* one of the summarizers that go to the model first has returned
PrimaryReturned ==
    /\ unit \in Summarizers \ {"_summarize_heuristic"}
    /\ returned # <<>>

(***************************************************************************)
(* C17: on the primary path every text handed to the model has at most     *)
(* 1024 characters; longer input is truncated or split before the call.    *)
(***************************************************************************)
C17_ModelInputsWithinWindow ==
    PrimaryReturned => \A i \in DOMAIN effects : Len(effects[i]) <= SummaryTextLimit

\* _summarize_with_hf has fed the model from a text longer than the window
C17_Witness ==
    /\ PrimaryReturned
    /\ unit = "_summarize_with_hf"
    /\ effects # <<>>
    /\ Len(argument) > SummaryTextLimit

\* SummarizerService.summarize_text does cut its input to the window
C17_ServiceTruncates ==
    (PrimaryReturned /\ unit = "SummarizerService.summarize_text")
        => \A i \in DOMAIN effects :
              /\ Len(effects[i]) <= SummaryTextLimit
              /\ effects[i] = Sub(argument, 1, SummaryTextLimit)

\* out is some of the sentences from the given one on, in their order,
\* joined by single spaces
RECURSIVE MadeInOrder(_, _, _)
MadeInOrder(out, sentences, from) ==
    \/ out = ""
    \/ \E j \in from..Len(sentences) :
          /\ StartsWith(out, sentences[j])
          /\ \/ Len(out) = Len(sentences[j])
             \/ /\ Ch(out, Len(sentences[j]) + 1) = " "
                /\ Len(out) > Len(sentences[j]) + 1
                /\ MadeInOrder(From(out, Len(sentences[j]) + 1), sentences, j + 1)

HeuristicReturned == unit = "_summarize_heuristic" /\ returned # <<>>

(***************************************************************************)
(* C18: _summarize_heuristic returns the selected sentences in the order   *)
(* they have in the text, and its summary never has more than 200 words,   *)
(* whatever the sentence lengths and even with a sentence occurring twice. *)
(***************************************************************************)
C18_OrderedWithinBudget ==
    HeuristicReturned
        => /\ MadeInOrder(returned.value, split_into_sentences(argument), 1)
           /\ Len(SplitWs(returned.value)) <= WordBudget

\* the heuristic has made a summary out of a text of several sentences
C18_Witness ==
    /\ HeuristicReturned
    /\ returned.value # ""
    /\ Len(split_into_sentences(argument)) > 1

\* the order is the text's, for every text
C18_OriginalOrder ==
    HeuristicReturned
        => MadeInOrder(returned.value, split_into_sentences(argument), 1)

\* the budget holds when the sentences are all different and one was selected
C18_BudgetOfDistinctSentences ==
    (/\ HeuristicReturned
     /\ Cardinality(Range(split_into_sentences(argument)))
            = Len(split_into_sentences(argument))
     /\ \E s \in Range(split_into_sentences(argument)) :
           Len(SplitWs(s)) >= MinScoredWords /\ Len(SplitWs(s)) <= WordBudget)
        => Len(SplitWs(returned.value)) <= WordBudget


-----------------------------------------------------------------------------
\* the three scores of one group of analyses and their average
GroupScores(group, parts, overall) ==
    {group[parts[i]].score : i \in DOMAIN parts} \cup {group[overall]}

\* every score of the validity analysis and of the five groups of analyses
\* of a critique, the sample-size score and the average it enters left out
DerivedScores(critique) ==
    {critique.validity_analysis[k].score : k \in DOMAIN critique.validity_analysis}
        \cup GroupScores(critique.writing_quality_analysis,
                <<"structure_coherence", "argument_flow", "abstract_quality">>,
                "overall_writing_score")
        \cup {critique.statistical_analysis.significance_testing.score,
              critique.statistical_analysis.statistical_assumptions.score}
        \cup GroupScores(critique.citation_network_analysis,
                <<"citation_patterns", "impact_assessment", "cross_reference_validation">>,
                "overall_citation_score")
        \cup GroupScores(critique.literature_analysis,
                <<"research_gaps", "novelty_assessment", "research_positioning">>,
                "overall_literature_score")
        \cup GroupScores(critique.advanced_critique_features,
                <<"reproducibility_assessment", "peer_review_metrics",
                  "reference_format_validation">>,
                "overall_advanced_score")

\* the four scores the overall score is made of, and the overall score
MainScores(critique) ==
    {critique.methodology_quality_score, critique.argument_quality_score,
     critique.bias_score, critique.overall_validity_score,
     critique.overall_assessment.overall_score}

SampleScores(critique) ==
    {critique.statistical_analysis.sample_size_adequacy.score,
     critique.statistical_analysis.overall_statistical_score}

\* a score, in tenths of a point, lies in [0, 100]
InScoreRange(s) == 0 <= s /\ s <= Points(100)

(***************************************************************************)
(* C14: every score of a critique lies in [0, 100]: each 'score' of a      *)
(* category or sub-analysis, each averaged 'overall_*_score', and          *)
(* overall_assessment.overall_score.                                       *)
(***************************************************************************)
C14_ScoresInRange ==
    ServiceCritiqueReturned
        => \A s \in MainScores(returned) \cup DerivedScores(returned)
                        \cup SampleScores(returned) : InScoreRange(s)

\* critique_paper has returned for a text that reports a sample size
C14_Witness ==
    /\ ServiceCritiqueReturned
    /\ returned.statistical_analysis.sample_size_adequacy.sample_sizes_found # <<>>

\* every score but the sample-size score and the average it enters is in range
C14_OtherScoresInRange ==
    ServiceCritiqueReturned
        => \A s \in MainScores(returned) \cup DerivedScores(returned) : InScoreRange(s)

\* the sample-size score is in range when no power analysis is mentioned
C14_SampleScoreWithoutPower ==
    (/\ ServiceCritiqueReturned
     /\ ~returned.statistical_analysis.sample_size_adequacy.power_analysis_mentioned)
        => InScoreRange(returned.statistical_analysis.sample_size_adequacy.score)


-----------------------------------------------------------------------------
\* POST /analyze of routes/simple_analyze.py has answered
AnalyzeAnswered == route = "analyze" /\ pc = "done"

\* the failures of input validation that are documented to give 400
BadRequest(u) ==
    \/ ~u.present
    \/ u.filename = ""
    \/ ~EndsWith(Lower(u.filename), ".pdf")
    \/ u.readable /\ ProcessPdfRejects(ExtractedText(u))

\* a file that passes the checks made before its size is looked at
Oversize(u) ==
    /\ u.present
    /\ u.filename # ""
    /\ EndsWith(Lower(u.filename), ".pdf")
    /\ u.oversize

(***************************************************************************)
(* C15: POST /analyze answers 400 to a missing file, an empty filename, a  *)
(* non-PDF extension and a too-short or empty extracted text, 413 to an    *)
(* oversize file, and 500 only to unexpected errors, never to a failure of *)
(* input validation.                                                       *)
(***************************************************************************)
C15_ErrorStatuses ==
    AnalyzeAnswered
        => /\ Oversize(upload) => response.status = 413
           /\ (~Oversize(upload) /\ BadRequest(upload)) => response.status = 400
           /\ response.status = 500 => ~(BadRequest(upload) \/ Oversize(upload))

\* POST /analyze has answered an upload that fails input validation
C15_Witness == AnalyzeAnswered /\ (BadRequest(upload) \/ Oversize(upload))

\* the statuses of validate_file_upload are the documented ones
C15_DecoratorStatuses ==
    (AnalyzeAnswered /\ UploadRejection(upload, route) # NoResponse)
        => /\ response.status = (IF Oversize(upload) THEN 413 ELSE 400)
           /\ BadRequest(upload) \/ Oversize(upload)

\* a text that process_uploaded_pdf finds too short is answered with 500
C15_TooShortIsServerError ==
    (AnalyzeAnswered /\ TooShortUpload) => response.status = 500


-----------------------------------------------------------------------------
(***************************************************************************)
(* services/factcheck_service.py: the calls to the fact-check API, and the *)
(* searches app_improved.validate_citations makes for one citation         *)
(***************************************************************************)
\* re.sub(r'\[[^\]]+\]', '', s) and re.sub(r'\([^)]+\)', '', s): the groups
\* between an opening character and the next closing one, at least one
\* character apart, are taken out
RECURSIVE RemoveGroups(_, _, _)
RemoveGroups(s, open, close) ==
    LET starts == {i \in 1..Len(s) :
                      /\ Ch(s, i) = open
                      /\ Ch(s, i + 1) # close
                      /\ \E j \in (i + 2)..Len(s) : Ch(s, j) = close}
    IN  IF starts = {} THEN s
        ELSE Sub(s, 1, Min(starts) - 1)
                \o RemoveGroups(
                      From(s, Min({j \in (Min(starts) + 2)..Len(s) : Ch(s, j) = close})),
                      open, close)

\* s.rsplit(' ', 1)[0]
BeforeLastSpace(s) ==
    IF Contains(s, " ") THEN Sub(s, 1, Max({i \in 1..Len(s) : Ch(s, i) = " "}) - 1) ELSE s

\* str.strip(chars)
StripChars(s, chars) ==
    IF \A i \in 1..Len(s) : Ch(s, i) \in chars THEN ""
    ELSE SubSeq(s, Min({i \in 1..Len(s) : Ch(s, i) \notin chars}),
                   Max({i \in 1..Len(s) : Ch(s, i) \notin chars}))

max_len == 110
Shortened(s) == IF Len(s) > max_len THEN BeforeLastSpace(Sub(s, 1, max_len)) ELSE s

\* _clean_query, for printable ASCII text (no control characters or typographic
\* quotes to replace)
clean_query(s) ==
    StripChars(Shortened(RemoveGroups(RemoveGroups(Join(SplitWs(s), " "), "[", "]"),
                                      "(", ")")),
               {" ", ".", ",", ":", ";"})

\* MAX_RETRIES when FACTCHECK_MAX_RETRIES is not set
DefaultMaxRetries == 2

Empty == "{}"

\* what _call_service and _call_rest do with the outcome of one attempt:
\* the data on success, {} after the last attempt, one more attempt otherwise
AfterAttempt(attempt, outcome, max_retries) ==
    IF outcome = "ok" THEN [data |-> "claims"]
    ELSE IF attempt = max_retries THEN [data |-> Empty]
    ELSE <<>>

\* the queries of app_improved.validate_citations for one citation
SearchQueries(citation) ==
    <<citation, clean_citation_improved(citation),
      Join(Take(SplitWs(clean_citation_improved(citation)), 4), " ")>>


FactQueries ==
    {"", "  (see [3]) ", "The vaccine reduced cases by 40% (p < 0.05).",
     "Prices rose in 2020 [12], officials said: "}
LookupCitations ==
    {"Transformer networks for vision", "Smith, J. Deep learning for text. 2019.",
     "\"Attention is all you need\" by Vaswani"}

\* the values FACTCHECK_MAX_RETRIES gives MAX_RETRIES
RetrySettings == 0..3
AttemptOutcomes == {"ok", "fail"}
SearchOutcomes == {Ok(<<>>), Ok(<<MatchingPaper>>), Fails("http_error"), Fails("timeout")}

LookupUnits == {"_call_service", "_call_rest", "validate_citations"}

LookupsInit ==
    /\ RequestsIdle
    /\ ScoresIdle
    /\ CacheIdle
    /\ ValidatorsIdle
    /\ UnitsIdle
    /\ StoreIdle
    /\ UploadsIdle

\* fact_check_claims calls one of the clients for a claim, or
\* validate_citations of app_improved.py comes to a citation
CallLookup ==
    /\ unit = "none"
    /\ \/ \E caller \in {"_call_service", "_call_rest"}, query \in FactQueries,
             retries \in RetrySettings, key \in BOOLEAN,
             outcomes \in [1..3 -> AttemptOutcomes] :
             /\ unit' = caller
             /\ argument' = query
             /\ behaviour' = [max_retries |-> retries, api_key |-> key,
                              outcomes |-> outcomes]
       \/ \E citation \in LookupCitations, outcomes \in [1..3 -> SearchOutcomes] :
             /\ unit' = "validate_citations"
             /\ argument' = citation
             /\ behaviour' = [outcomes |-> outcomes]
    /\ UNCHANGED <<effects, returned>>
    /\ UNCHANGED <<analyzeVars, scoreVars, cacheVars, validateVars, storeVars, uploadVars>>

\* one attempt of the loop "for attempt in range(1, MAX_RETRIES + 1)", or
\* the return that ends the call without one; usable: the client has a query
\* (and a key) to send
Attempt(usable) ==
    /\ returned = <<>>
    /\ IF ~usable
       THEN effects' = effects /\ returned' = [data |-> Empty]
       ELSE IF Len(effects) >= behaviour.max_retries
       THEN effects' = effects /\ returned' = [data |-> None]
       ELSE /\ effects' = Append(effects, clean_query(argument))
            /\ returned' = AfterAttempt(Len(effects) + 1,
                                        behaviour.outcomes[Len(effects) + 1],
                                        behaviour.max_retries)
    /\ UNCHANGED <<unit, argument, behaviour>>
    /\ UNCHANGED <<analyzeVars, scoreVars, cacheVars, validateVars, storeVars, uploadVars>>

ServiceAttempt ==
    /\ unit = "_call_service"
    /\ Attempt(clean_query(argument) # "")

RestAttempt ==
    /\ unit = "_call_rest"
    /\ Attempt(clean_query(argument) # "" /\ behaviour.api_key)

\* one search_citation of the loop body of validate_citations
Search ==
    /\ unit = "validate_citations"
    /\ returned = <<>>
    /\ effects' = Append(effects, SearchQueries(argument)[Len(effects) + 1])
    /\ returned' =
          IF \/ Len(effects) + 1 = Len(SearchQueries(argument))
             \/ search_citation(SearchQueries(argument)[Len(effects) + 1],
                                behaviour.outcomes[Len(effects) + 1]) # NotFound
          THEN [result |-> search_citation(SearchQueries(argument)[Len(effects) + 1],
                                           behaviour.outcomes[Len(effects) + 1])]
          ELSE <<>>
    /\ UNCHANGED <<unit, argument, behaviour>>
    /\ UNCHANGED <<analyzeVars, scoreVars, cacheVars, validateVars, storeVars, uploadVars>>

LookupsNext ==
    \/ CallLookup
    \/ ServiceAttempt
    \/ RestAttempt
    \/ Search

SpecLookups == LookupsInit /\ [][LookupsNext]_vars

\* how many times the i-th request has been sent so far
TimesSent(i) == Cardinality({j \in DOMAIN effects : effects[j] = effects[i]})

(***************************************************************************)
(* C16: no external call is retried more than once: a query to the         *)
(* fact-check API or to the paper search is sent at most twice, and after  *)
(* that the failure becomes the default result of the stage.               *)
(***************************************************************************)
C16_AtMostTwoAttempts ==
    unit \in LookupUnits => \A i \in DOMAIN effects : TimesSent(i) <= 2

\* a lookup has ended after sending its query more than once
C16_Witness ==
    /\ unit \in LookupUnits
    /\ returned # <<>>
    /\ \E i \in DOMAIN effects : TimesSent(i) > 1

\* the fact-check clients make MAX_RETRIES attempts at most, two when
\* FACTCHECK_MAX_RETRIES is not set, and answer {} after the last failure
C16_FactCheckAttempts ==
    unit \in {"_call_service", "_call_rest"}
        => /\ Len(effects) <= behaviour.max_retries
           /\ behaviour.max_retries = DefaultMaxRetries => Len(effects) <= 2
           /\ (/\ returned # <<>>
               /\ effects # <<>>
               /\ behaviour.outcomes[Len(effects)] = "fail") => returned.data = Empty

\* a search that times out or cannot connect is not repeated
C16_NoSearchAfterError ==
    (unit = "validate_citations" /\ returned = <<>>)
        => \A i \in DOMAIN effects :
              search_citation(effects[i], behaviour.outcomes[i]) = NotFound


-----------------------------------------------------------------------------
(***************************************************************************)
(* services/citations_service.py: the reference block and its entries, as  *)
(* validate(text) finds them                                               *)
(***************************************************************************)
\* [ln.strip() for ln in text.splitlines()], for text whose only line
\* boundary is "\n": a final "\n" starts no further line
split_lines(t) ==
    IF t = "" THEN <<>>
    ELSE IF Ch(t, Len(t)) = "\n"
    THEN [i \in 1..(Len(Split(t, "\n")) - 1) |-> Strip(Split(t, "\n")[i])]
    ELSE [i \in 1..Len(Split(t, "\n")) |-> Strip(Split(t, "\n")[i])]

\* _SECTION_HEAD_RE.match(ln): ^\s*(references|bibliography|works\s+cited)\s*$
\* without regard to case
SectionHead(ln) ==
    \/ Lower(Strip(ln)) \in {"references", "bibliography"}
    \/ /\ StartsWith(Lower(Strip(ln)), "works")
       /\ EndsWith(Lower(Strip(ln)), "cited")
       /\ Len(Strip(ln)) > 10
       /\ \A i \in 6..(Len(Strip(ln)) - 5) : Ch(Strip(ln), i) \in Spaces

\* re.match(r'^[A-Z][A-Z0-9 ._-]{3,}$', ln) and len(ln.split()) <= 6
NextSection(ln) ==
    /\ Len(ln) >= 4
    /\ Ch(ln, 1) \in UpperLetters
    /\ \A i \in 2..Len(ln) :
          Ch(ln, i) \in UpperLetters \cup Digits \cup {" ", ".", "_", "-"}
    /\ Len(SplitWs(ln)) <= 6

\* the lines after the header up to the next section header, blank lines kept
RECURSIVE BlockLoop(_, _)
BlockLoop(lines, block) ==
    IF lines = <<>> THEN block
    ELSE IF Strip(Head(lines)) = "" THEN BlockLoop(Tail(lines), Append(block, Head(lines)))
    ELSE IF NextSection(Head(lines)) THEN block
    ELSE BlockLoop(Tail(lines), Append(block, Head(lines)))

find_references_block(lines) ==
    IF \A idx \in DOMAIN lines : ~SectionHead(lines[idx]) THEN <<>>
    ELSE BlockLoop(SubSeq(lines, Min({idx \in DOMAIN lines : SectionHead(lines[idx])}) + 1,
                          Len(lines)),
                   <<>>)

\* re.match(r'^\s*\[\d+\]\s+', ln)
BracketLed(ln) ==
    /\ MarkerEnd(LStrip(ln), 1) # 0
    /\ Ch(LStrip(ln), MarkerEnd(LStrip(ln), 1) + 1) \in Spaces

\* entries.append(" ".join(buf).strip()) when buf holds lines
Flushed(entries, buf) ==
    IF buf # <<>> THEN Append(entries, Strip(Join(buf, " "))) ELSE entries

RECURSIVE ReferenceLoop(_, _, _)
ReferenceLoop(ref_lines, entries, buf) ==
    IF ref_lines = <<>> THEN Flushed(entries, buf)
    ELSE IF Head(ref_lines) = "" \/ BracketLed(Head(ref_lines))
    THEN ReferenceLoop(Tail(ref_lines), Flushed(entries, buf),
                    IF BracketLed(Head(ref_lines)) THEN <<Head(ref_lines)>> ELSE <<>>)
    ELSE ReferenceLoop(Tail(ref_lines), entries, Append(buf, Head(ref_lines)))

\* _chunk_references: the entries, those of 20 characters or fewer dropped
chunk_references(ref_lines) ==
    SelectSeq(ReferenceLoop(ref_lines, <<>>, <<>>), LAMBDA e : Len(e) > MinCitationLen)

\* the reference entries of validate(text)
ref_entries(t) ==
    IF find_references_block(split_lines(t)) # <<>>
    THEN chunk_references(find_references_block(split_lines(t)))
    ELSE <<>>


\* papers with two or three entries in every layout and style, with and
\* without a header, and two with more entries than any cap
ExtractionDocs ==
    {Paper(pre, header, layout, style, k) :
        pre \in {"plain", "cites"}, header \in {"none", "References"},
        layout \in Layouts, style \in {"bracket", "numbered"}, k \in {2, 3}}
        \cup {Paper("plain", "References", "tight", style, 21) :
                 style \in {"bracket", "numbered"}}

ExtractionTexts ==
    {Render(d) : d \in ExtractionDocs}
        \cup {"Earlier work [1], [2] is extended here.",
              "References\n[1] Smith, J. (2020). Deep learning\nfor widgets. Nature.\n[2] Jones, K. (2019). Widgets at work.\nAPPENDIX A\n[3] not a reference at all, only an appendix line",
              "References\n[1] Short.\n[2] Tiny.\n"}

Extractors == {"CitationsService.extract_citations", "extract_citations", "validate"}

ExtractionInit ==
    /\ RequestsIdle
    /\ ScoresIdle
    /\ CacheIdle
    /\ ValidatorsIdle
    /\ UnitsIdle
    /\ StoreIdle
    /\ UploadsIdle

\* a caller hands a text to one of the extractors
CallExtractor ==
    /\ unit = "none"
    /\ \E extractor \in Extractors, txt \in ExtractionTexts :
          /\ unit' = extractor
          /\ argument' = txt
    /\ UNCHANGED <<behaviour, effects, returned>>
    /\ UNCHANGED <<analyzeVars, scoreVars, cacheVars, validateVars, storeVars, uploadVars>>

\* the extractor returns its entries; block: the reference block it kept
Extracted(block, entries) ==
    /\ returned = <<>>
    /\ effects' = block
    /\ returned' = [entries |-> entries]
    /\ UNCHANGED <<unit, argument, behaviour>>
    /\ UNCHANGED <<analyzeVars, scoreVars, cacheVars, validateVars, storeVars, uploadVars>>

ServiceExtract ==
    /\ unit = "CitationsService.extract_citations"
    /\ Extracted(<<>>, extract_citations(argument))

ImprovedExtract ==
    /\ unit = "extract_citations"
    /\ Extracted(<<>>, extract_citations_improved(argument))

\* lines 384-386 of validate(text)
LegacyExtract ==
    /\ unit = "validate"
    /\ Extracted(find_references_block(split_lines(argument)), ref_entries(argument))

ExtractionNext ==
    \/ CallExtractor
    \/ ServiceExtract
    \/ ImprovedExtract
    \/ LegacyExtract

SpecExtraction == ExtractionInit /\ [][ExtractionNext]_vars

ExtractionReturned == unit \in Extractors /\ returned # <<>>

\* the cap on the entries of an extractor; the larger one where none is named
CapOf(extractor) ==
    IF extractor = "CitationsService.extract_citations" THEN RefCap ELSE ImprovedRefCap

LongEntries(entries) == \A i \in DOMAIN entries : Len(entries[i]) > MinCitationLen

(***************************************************************************)
(* C19: every entry citation extraction returns is longer than 20          *)
(* characters and there are never more entries than the cap (10 for        *)
(* CitationsService.extract_citations, 20 for app_improved), on the header *)
(* path, on the numbered-reference fallback and in the block/chunk         *)
(* extractor of validate.                                                  *)
(***************************************************************************)
C19_LongEntriesWithinCap ==
    ExtractionReturned
        => /\ LongEntries(returned.entries)
           /\ Len(returned.entries) <= CapOf(unit)

\* extract_citations has returned entries found without a header
C19_Witness ==
    /\ ExtractionReturned
    /\ unit = "CitationsService.extract_citations"
    /\ RefsStart(Lower(argument)) = -1
    /\ returned.entries # <<>>

\* the header path of CitationsService.extract_citations and the extractor
\* of app_improved.py keep to the length and to the cap
C19_HeaderPathsKeepBoth ==
    (/\ ExtractionReturned
     /\ unit # "validate"
     /\ unit = "CitationsService.extract_citations" => RefsStart(Lower(argument)) # -1)
        => /\ LongEntries(returned.entries)
           /\ Len(returned.entries) <= CapOf(unit)

\* the fallback keeps to the cap, the extractor of validate to the length
C19_FallbackCapLegacyLength ==
    ExtractionReturned
        => /\ unit = "CitationsService.extract_citations"
                 => Len(returned.entries) <= RefCap
           /\ unit = "validate" => LongEntries(returned.entries)

\* the line starts with a marker [n], or with a marker n.
MarkerLed(ln) ==
    \/ MarkerEnd(LStrip(ln), 1) # 0
    \/ /\ DigitRun(LStrip(ln), 1) >= 1
       /\ Ch(LStrip(ln), DigitRun(LStrip(ln), 1) + 1) = "."

\* the lines of the block grouped so that a new entry begins after every
\* blank line and at every line that Led holds of
GroupedEntries(block, Led(_)) ==
    LET starts == SortedSeq({i \in DOMAIN block :
                                /\ block[i] # ""
                                /\ i = 1 \/ block[i - 1] = "" \/ Led(block[i])})
        last(i) == Max({j \in i..Len(block) :
                           \A m \in (i + 1)..j : block[m] # "" /\ ~Led(block[m])})
    IN  [n \in 1..Len(starts) |->
            Strip(Join(SubSeq(block, starts[n], last(starts[n])), " "))]

LegacyReturned == unit = "validate" /\ returned # <<>>

(***************************************************************************)
(* C20: the lines of the reference block are grouped into entries so that  *)
(* every blank line and every line starting with a marker '[n]' or 'n.'    *)
(* begins a new entry: k marker-led lines in a row give k entries, never   *)
(* one merged entry.                                                       *)
(***************************************************************************)
C20_MarkerLedLinesSeparate ==
    LegacyReturned
        => returned.entries
              = SelectSeq(GroupedEntries(effects, MarkerLed),
                          LAMBDA e : Len(e) > MinCitationLen)

\* the block holds marker-led lines in a row
C20_Witness ==
    /\ LegacyReturned
    /\ \E i \in DOMAIN effects :
          i > 1 /\ MarkerLed(effects[i]) /\ MarkerLed(effects[i - 1])

\* blank lines and the markers [n] followed by a space do begin entries
C20_BracketLedLinesSeparate ==
    LegacyReturned
        => returned.entries
              = SelectSeq(GroupedEntries(effects, BracketLed),
                          LAMBDA e : Len(e) > MinCitationLen)


-----------------------------------------------------------------------------
(***************************************************************************)
(* services/citations_service.py: _extract_title_guess                     *)
(***************************************************************************)
\* s without the stretches [from(i), to(i)] that start at the positions of
\* starts, taken left to right without overlap (re.sub with '')
RECURSIVE CutFrom(_, _, _, _)
CutFrom(s, at, starts, to) ==
    IF \A i \in starts : i < at THEN Sub(s, at, Len(s))
    ELSE Sub(s, at, Min({i \in starts : i >= at}) - 1)
            \o CutFrom(s, to[Min({i \in starts : i >= at})] + 1, starts, to)

LetterOrDigit == UpperLetters \cup LowerLetters \cup Digits
DoiChars == LetterOrDigit \cup {"-", ".", "_", ";", "(", ")", "/", ":"}

\* the end of the run of characters of cls that starts at i (i - 1 when empty)
RunEnd(s, i, cls) ==
    Min({j \in (i - 1)..Len(s) : j = Len(s) \/ Ch(s, j + 1) \notin cls})

\* where _DOI_RE, \b10\.\d{4,9}/[-._;()/:A-Z0-9]+\b without regard to case,
\* matches from i: the position of the last character of the match, or 0.
\* The match ends at the last word character of the run after the slash.
DoiEnd(s, i) ==
    LET d == DigitRun(s, i + 3)
        slash == i + 3 + d
        stop == RunEnd(s, slash + 1, DoiChars)
        ends == {j \in (slash + 1)..stop : Ch(s, j) \in WordChars}
    IN  IF /\ Sub(s, i, i + 2) = "10."
           /\ (i = 1 \/ Ch(s, i - 1) \notin WordChars)
           /\ d >= 4 /\ d <= 9
           /\ Ch(s, slash) = "/"
           /\ ends # {}
        THEN Max(ends) ELSE 0

WithoutDois(s) ==
    CutFrom(s, 1, {i \in 1..Len(s) : DoiEnd(s, i) # 0},
            [i \in 1..Len(s) |-> DoiEnd(s, i)])

\* where _URL_RE, https?://[^\s<>"\)]+ without regard to case, matches from i
UrlEnd(s, i) ==
    LET after == IF Lower(Sub(s, i, i + 6)) = "http://" THEN i + 7
                 ELSE IF Lower(Sub(s, i, i + 7)) = "https://" THEN i + 8 ELSE 0
        stop == Min({j \in (after - 1)..Len(s) :
                        j = Len(s) \/ Ch(s, j + 1) \in Spaces \cup {"<", ">", "\"", ")"}})
    IN  IF after # 0 /\ stop >= after THEN stop ELSE 0

WithoutUrls(s) ==
    CutFrom(s, 1, {i \in 1..Len(s) : UrlEnd(s, i) # 0},
            [i \in 1..Len(s) |-> UrlEnd(s, i)])

\* what (.+?)\. captures when it is tried at p: the text up to the first
\* period after p, on one line; "" when it cannot match
LazyToPeriod(s, p) ==
    LET dots == {q \in (p + 1)..Len(s) : Ch(s, q) = "."}
    IN  IF p > Len(s) \/ dots = {} THEN ""
        ELSE IF \E k \in p..(Min(dots) - 1) : Ch(s, k) = "\n" THEN ""
        ELSE SubSeq(s, p, Min(dots) - 1)

\* the starts \.?\s* can leave after position e, in the order the regex
\* tries them: the period taken first, the longer run of whitespace first
YearStarts(s, e) ==
    LET ws(p) == RunEnd(s, p, Spaces) - p + 1
        from(p) == [k \in 1..(ws(p) + 1) |-> p + ws(p) + 1 - k]
    IN  (IF Ch(s, e + 1) = "." THEN from(e + 2) ELSE <<>>) \o from(e + 1)

\* group 2 of \((\d{4}[a-z]?)\)\.?\s*(.+?)\. tried at the marker opening at i
YearGuessAt(s, i) ==
    LET tries == YearStarts(s, YearEnd(s, i))
        ok == {k \in DOMAIN tries : LazyToPeriod(s, tries[k]) # ""}
    IN  IF YearEnd(s, i) = 0 \/ ok = {} THEN ""
        ELSE LazyToPeriod(s, tries[Min(ok)])

\* re.split(r'\.\s+', s)
SplitOnPeriodSpace(s) ==
    LET seps == SortedSeq({i \in 1..Len(s) : Ch(s, i) = "." /\ Ch(s, i + 1) \in Spaces})
        n == Len(seps)
        lo(j) == IF j = 1 THEN 1 ELSE RunEnd(s, seps[j - 1] + 1, Spaces) + 1
        hi(j) == IF j = n + 1 THEN Len(s) ELSE seps[j] - 1
    IN  [j \in 1..(n + 1) |-> Sub(s, lo(j), hi(j))]

MinGuessLen == 5
GuessLimit == 120

\* the title guessed from a reference with its DOIs and URLs taken out
GuessOf(cleaned) ==
    LET quoted == Delimited(cleaned, "\"")
        years == {i \in 1..Len(cleaned) : YearGuessAt(cleaned, i) # ""}
        parts == SelectSeq([j \in DOMAIN SplitOnPeriodSpace(cleaned) |->
                               Strip(SplitOnPeriodSpace(cleaned)[j])],
                           LAMBDA p : Len(p) > MinGuessLen)
    IN  IF quoted.found THEN Strip(quoted.group)
        ELSE IF years # {} THEN Strip(YearGuessAt(cleaned, Min(years)))
        ELSE IF Len(parts) > 1 THEN parts[2]
        ELSE IF parts # <<>> THEN parts[1]
        ELSE Sub(cleaned, 1, GuessLimit)

extract_title_guess(ref) == GuessOf(WithoutUrls(WithoutDois(ref)))


\* reference entries of every kind the rules tell apart, with and without
\* leading numbering
Numberings == {"", "3. ", "[12] "}
EntryBodies ==
    {"Smith, J. (2020). Deep learning for widgets. Nature, 15(3).",
     "Goodfellow, I. \"Generative adversarial nets.\" Advances in NIPS 27 (2014).",
     "A. Author, *Title of the paper in italics*, 2020.",
     "A. Author, *Italic title* and \"Quoted title\" together.",
     "Lee A (2020). Deep nets. Nature, 15(3).",
     "Lee et al. (2020a) A title without a period before. Journal of Things.",
     "Author Name. A short title ok. A considerably longer third segment here",
     "Author Name Long. Journal of Stuff. Proceedings of Things. Real title here ok",
     "Jones K (eds). Handbook of many widgets. (2019). Later title words here.",
     "First part long enough. 15(3) issue number. Third part long enough here",
     "Multi\nline citation (2021).\nTitle across lines here. Venue",
     "Doe, J. (2018). Widgets at https://example.org/w.pdf and beyond. doi 10.1000/xyz123.",
     "Brown, K. Understanding widgets in depth. Journal of Widgets, vol. 3, pp. 1-9.",
     "Plain entry without any period at all but long enough",
     "short", "abc", "", "abcdef"}
CleanedEntries == {n \o b : n \in Numberings, b \in EntryBodies}

Cleaners == {"CitationsService.clean_citation", "_extract_title_guess"}

CleaningInit ==
    /\ RequestsIdle
    /\ ScoresIdle
    /\ CacheIdle
    /\ ValidatorsIdle
    /\ UnitsIdle
    /\ StoreIdle
    /\ UploadsIdle

\* validate_citations or validate comes to an entry
CallCleaner ==
    /\ unit = "none"
    /\ \E cleaner \in Cleaners, entry \in CleanedEntries :
          /\ unit' = cleaner
          /\ argument' = entry
    /\ UNCHANGED <<behaviour, effects, returned>>
    /\ UNCHANGED <<analyzeVars, scoreVars, cacheVars, validateVars, storeVars, uploadVars>>

Cleaned(title) ==
    /\ returned = <<>>
    /\ returned' = [title |-> title]
    /\ UNCHANGED <<unit, argument, behaviour, effects>>
    /\ UNCHANGED <<analyzeVars, scoreVars, cacheVars, validateVars, storeVars, uploadVars>>

CleanCitation ==
    /\ unit = "CitationsService.clean_citation"
    /\ Cleaned(clean_citation(argument))

ExtractTitleGuess ==
    /\ unit = "_extract_title_guess"
    /\ Cleaned(extract_title_guess(argument))

CleaningNext ==
    \/ CallCleaner
    \/ CleanCitation
    \/ ExtractTitleGuess

SpecCleaning == CleaningInit /\ [][CleaningNext]_vars

CleanCitationReturned == unit = "CitationsService.clean_citation" /\ returned # <<>>

\* the entry on one line, its leading numbering stripped
Unnumbered(entry) ==
    StripLeadingBracket(StripLeadingNumber(Strip(Join(Split(entry, "\n"), " "))))

\* the text between the first '(year)' marker that has some and the next
\* period, a period right after the marker passed over
AfterYearMarker(c) ==
    LET at == {i \in 1..Len(c) :
                  /\ YearEnd(c, i) # 0
                  /\ UpToPeriod(c, IF Ch(c, YearEnd(c, i) + 1) = "."
                                   THEN YearEnd(c, i) + 1 ELSE YearEnd(c, i)).found}
    IN  IF at = {} THEN NoMatch
        ELSE UpToPeriod(c, IF Ch(c, YearEnd(c, Min(at)) + 1) = "."
                           THEN YearEnd(c, Min(at)) + 1 ELSE YearEnd(c, Min(at)))

\* the period-delimited segments that do not look like a journal
PlainSegments(c) ==
    SelectSeq([j \in DOMAIN Split(c, ".") |-> Strip(Split(c, ".")[j])],
              LAMBDA p : p # "" /\ ~LooksLikeJournal(p))

\* the first of the longest of them
Longest(segments) ==
    segments[Min({j \in DOMAIN segments :
                     \A k \in DOMAIN segments : Len(segments[k]) <= Len(segments[j])})]

\* the title the priority order gives for an entry stripped of its numbering
TitleByPriority(c, raw) ==
    IF Delimited(c, "\"").found THEN Delimited(c, "\"").group
    ELSE IF Delimited(c, "*").found THEN Delimited(c, "*").group
    ELSE IF AfterYearMarker(c).found THEN Strip(AfterYearMarker(c).group)
    ELSE IF PlainSegments(c) # <<>> THEN Longest(PlainSegments(c))
    ELSE raw

(***************************************************************************)
(* C21: clean_citation applies its rules in priority order: the leading    *)
(* numbering is stripped; then a double-quoted title is returned if there  *)
(* is one; else an italic-marked title; else the text between a '(year)'   *)
(* marker and the next period; else the longest period-delimited segment   *)
(* that does not look like a journal; else the raw entry.                  *)
(***************************************************************************)
C21_RulesInPriorityOrder ==
    CleanCitationReturned
        => returned.title \in {TitleByPriority(Unnumbered(argument), argument),
                               TitleByPriority(Unnumbered(argument), Unnumbered(argument))}

\* clean_citation has cleaned an entry with neither a quoted nor an italic title
C21_Witness ==
    /\ CleanCitationReturned
    /\ ~Delimited(Unnumbered(argument), "\"").found
    /\ ~Delimited(Unnumbered(argument), "*").found
    /\ PlainSegments(Unnumbered(argument)) # <<>>

\* the first two rules are applied as stated
C21_QuotedThenItalic ==
    CleanCitationReturned
        => /\ Delimited(Unnumbered(argument), "\"").found
                 => returned.title = Delimited(Unnumbered(argument), "\"").group
           /\ (/\ ~Delimited(Unnumbered(argument), "\"").found
               /\ Delimited(Unnumbered(argument), "*").found)
                 => returned.title = Delimited(Unnumbered(argument), "*").group

\* the title after a year marker is taken only when it has more than 10
\* characters, and the segment rule takes the second or third long segment,
\* not the longest
C21_SegmentIsSecondOrThird ==
    (/\ CleanCitationReturned
     /\ ~Delimited(Unnumbered(argument), "\"").found
     /\ ~Delimited(Unnumbered(argument), "*").found
     /\ ~(/\ AfterParenPeriod(Unnumbered(argument)).found
          /\ Len(Strip(AfterParenPeriod(Unnumbered(argument)).group)) > MinTitleLen)
     /\ ~(/\ AfterYear(Unnumbered(argument)).found
          /\ Len(Strip(AfterYear(Unnumbered(argument)).group)) > MinTitleLen)
     /\ SegmentTitle(LongParts(Split(Unnumbered(argument), "."))) # "")
        => returned.title = SegmentTitle(LongParts(Split(Unnumbered(argument), ".")))


-----------------------------------------------------------------------------
(***************************************************************************)
(* services/factcheck_service.py: the verdict of a claim from the ratings  *)
(* of its reviews.                                                         *)
(***************************************************************************)

truthy_keys == <<"true", "correct", "accurate", "mostly true">>
falsy_keys == <<"false", "incorrect", "inaccurate", "mostly false">>

\* any(k in alt for k in keys)
AnyKeyIn(alt, keys) == \E i \in DOMAIN keys : Contains(alt, keys[i])

\* str(rr.get("alternateName") or rr.get("ratingValue") or "").lower()
RatingText(rr) ==
    Lower(IF rr.alternateName # "" THEN rr.alternateName ELSE rr.ratingValue)

\* the ratings of all reviews of all fact checks, in the order of the loops
RECURSIVE AllRatings(_)
AllRatings(fact_checks) ==
    IF fact_checks = <<>> THEN <<>>
    ELSE [i \in DOMAIN Head(fact_checks).claimReview |->
             RatingText(Head(fact_checks).claimReview[i].reviewRating)]
         \o AllRatings(Tail(fact_checks))

\* how many of the ratings contain one of the keys
RECURSIVE Tally(_, _)
Tally(ratings, keys) ==
    IF ratings = <<>> THEN 0
    ELSE (IF AnyKeyIn(Head(ratings), keys) THEN 1 ELSE 0) + Tally(Tail(ratings), keys)

Verdict(truthy, falsy) ==
    IF truthy > falsy /\ truthy > 0 THEN "verified"
    ELSE IF falsy > truthy /\ falsy > 0 THEN "contradicted"
    ELSE "no_verdict"

status_from_reviews(fact_checks) ==
    IF fact_checks = <<>> THEN "no_verdict"
    ELSE Verdict(Tally(AllRatings(fact_checks), truthy_keys),
                 Tally(AllRatings(fact_checks), falsy_keys))

(***************************************************************************)
(* Calls of _status_from_reviews on the fact checks of one claim.          *)
(***************************************************************************)

RatingNames == {"True", "Mostly True", "Correct", "Accurate", "False",
                "Mostly False", "Incorrect", "Inaccurate", "Unproven"}

Review(name) == [reviewRating |-> [alternateName |-> name, ratingValue |-> ""]]

\* a review that carries its rating as ratingValue only
ValuedReview(name) == [reviewRating |-> [alternateName |-> "", ratingValue |-> name]]

FactCheck(reviews) == [claimReview |-> reviews]

\* no fact check; one fact check of one or two reviews; two fact checks of
\* one review each; one fact check whose review has a ratingValue only
ReviewedClaims ==
    {<<>>}
      \cup {<<FactCheck(<<Review(a)>>)>> : a \in RatingNames}
      \cup {<<FactCheck(<<Review(a), Review(b)>>)>> : a \in RatingNames, b \in RatingNames}
      \cup {<<FactCheck(<<Review(a)>>), FactCheck(<<Review(b)>>)>> :
               a \in {"True", "Incorrect"}, b \in RatingNames}
      \cup {<<FactCheck(<<ValuedReview(a)>>)>> : a \in {"True", "Inaccurate"}}

VerdictsInit ==
    /\ RequestsIdle
    /\ ScoresIdle
    /\ CacheIdle
    /\ ValidatorsIdle
    /\ UnitsIdle
    /\ StoreIdle
    /\ UploadsIdle

\* fact_check_claims has the fact checks of a claim
CallStatusFromReviews ==
    /\ unit = "none"
    /\ \E fcs \in ReviewedClaims :
          /\ unit' = "_status_from_reviews"
          /\ argument' = fcs
    /\ UNCHANGED <<behaviour, effects, returned>>
    /\ UNCHANGED <<analyzeVars, scoreVars, cacheVars, validateVars, storeVars, uploadVars>>

StatusFromReviews ==
    /\ unit = "_status_from_reviews"
    /\ returned = <<>>
    /\ returned' = [status |-> status_from_reviews(argument)]
    /\ UNCHANGED <<unit, argument, behaviour, effects>>
    /\ UNCHANGED <<analyzeVars, scoreVars, cacheVars, validateVars, storeVars, uploadVars>>

VerdictsNext ==
    \/ CallStatusFromReviews
    \/ StatusFromReviews

SpecVerdicts == VerdictsInit /\ [][VerdictsNext]_vars

StatusReturned == unit = "_status_from_reviews" /\ returned # <<>>

\* the rating is one of true, correct, accurate, mostly true
TrueType(rating) == \E i \in DOMAIN truthy_keys : rating = truthy_keys[i]
\* the rating is one of false, incorrect, inaccurate, mostly false
FalseType(rating) == \E i \in DOMAIN falsy_keys : rating = falsy_keys[i]

TrueTypeCount(ratings) == Cardinality({i \in DOMAIN ratings : TrueType(ratings[i])})
FalseTypeCount(ratings) == Cardinality({i \in DOMAIN ratings : FalseType(ratings[i])})

\* the verdict by the counts of true-type and false-type ratings
VerdictByType(ratings) ==
    IF TrueTypeCount(ratings) > FalseTypeCount(ratings) THEN "verified"
    ELSE IF FalseTypeCount(ratings) > TrueTypeCount(ratings) THEN "contradicted"
    ELSE "no_verdict"

\* C30: _status_from_reviews counts each rating toward at most one bucket and
\* returns 'verified' exactly when the true-type ratings (true, correct,
\* accurate, mostly true) outnumber the false-type ones (false, incorrect,
\* inaccurate, mostly false), 'contradicted' exactly when the false-type ones
\* outnumber the true-type ones, and 'no_verdict' otherwise; reviews rated
\* only 'incorrect' or 'inaccurate' give 'contradicted'.
C30_VerdictByRatingType ==
    StatusReturned
        => /\ returned.status = VerdictByType(AllRatings(argument))
           /\ \A i \in DOMAIN AllRatings(argument) :
                 ~(AnyKeyIn(AllRatings(argument)[i], truthy_keys)
                     /\ AnyKeyIn(AllRatings(argument)[i], falsy_keys))

\* a claim whose only review is rated 'Incorrect' has its verdict
C30_Witness ==
    /\ StatusReturned
    /\ argument = <<FactCheck(<<Review("Incorrect")>>)>>

\* C30 (what the code does): the verdict compares how many ratings contain a
\* true-type word with how many contain a false-type word
C30_VerdictBySubstring ==
    StatusReturned
        => returned.status =
             Verdict(Tally(AllRatings(argument), truthy_keys),
                     Tally(AllRatings(argument), falsy_keys))

\* C30 (what the code does): 'incorrect' and 'inaccurate' count in both
\* buckets, so reviews rated only with them give 'no_verdict'
C30_IncorrectOnlyNoVerdict ==
    StatusReturned /\ (\A i \in DOMAIN AllRatings(argument) :
                          AllRatings(argument)[i] \in {"incorrect", "inaccurate"})
        => returned.status = "no_verdict"


-----------------------------------------------------------------------------
(***************************************************************************)
(* services/factcheck_service.py: fact_check_claims.                       *)
(***************************************************************************)

Placeholder == "your-api-key-here"
MinKeyLen == 10
MaxClaims == 5

\* _is_valid_service_account_file(SERVICE_ACCOUNT_FILE)
ValidAccountFile(config) == config.account_file = "valid"

\* _has_valid_credentials()
has_valid_credentials(config) ==
    \/ ValidAccountFile(config)
    \/ config.api_key # "" /\ config.api_key # Placeholder
                           /\ Len(config.api_key) > MinKeyLen

\* _init_service() returns a client
use_service(config) == ValidAccountFile(config) /\ config.client_builds
\* use_rest = (not use_service) and bool(API_KEY)
use_rest(config) == ~use_service(config) /\ config.api_key # ""

\* the whole list
EveryClaim(claims) == claims
\* claims[:5]
FirstClaims(claims) == Take(claims, MaxClaims)

NotConfigured(c) ==
    [claim |-> c, status |-> "no_verdict", fact_checks |-> <<>>,
     error |-> "Fact-check API not configured (no valid credentials)"]
Unavailable(c) ==
    [claim |-> c, status |-> "no_verdict", fact_checks |-> <<>>,
     error |-> "Fact-check service unavailable"]

\* the attempts of _call_service or _call_rest from the given one on: how
\* many requests are sent and the data returned
RECURSIVE Retried(_, _, _)
Retried(attempt, outcomes, max_retries) ==
    IF attempt > max_retries THEN [sent |-> attempt - 1, data |-> None]
    ELSE IF AfterAttempt(attempt, outcomes[attempt], max_retries) # <<>>
    THEN [sent |-> attempt,
          data |-> AfterAttempt(attempt, outcomes[attempt], max_retries).data]
    ELSE Retried(attempt + 1, outcomes, max_retries)

\* _call_service(service, c) if use_service else _call_rest(c)
Called(c, world) ==
    IF clean_query(c) = "" THEN [sent |-> 0, data |-> Empty]
    ELSE Retried(1, world.outcomes, world.max_retries)

\* data.get("claims", []) if isinstance(data, dict) else []
ClaimsOf(data, found) == IF data = "claims" THEN found ELSE <<>>

\* the found fact checks of the i-th claim
FoundFor(i, world) == world.found[(i % 2) + 1]

Checked(c, i, world) ==
    [claim |-> c,
     status |-> status_from_reviews(ClaimsOf(Called(c, world).data, FoundFor(i, world))),
     fact_checks |-> ClaimsOf(Called(c, world).data, FoundFor(i, world)),
     error |-> None]

\* the requests the loop over the claims sends
RECURSIVE RequestsSent(_, _)
RequestsSent(cs, world) ==
    IF cs = <<>> THEN <<>>
    ELSE RequestsSent(SubSeq(cs, 1, Len(cs) - 1), world)
         \o [k \in 1..Called(cs[Len(cs)], world).sent |-> clean_query(cs[Len(cs)])]

\* fact_check_claims(claims): the results, in a world of given credentials
\* and answers
fact_check_claims(claims, world) ==
    IF claims = <<>> THEN <<>>
    ELSE IF ~has_valid_credentials(world.config)
    THEN [i \in DOMAIN FirstClaims(claims) |-> NotConfigured(claims[i])]
    ELSE IF ~use_service(world.config) /\ ~use_rest(world.config)
    THEN [i \in DOMAIN FirstClaims(claims) |-> Unavailable(claims[i])]
    ELSE [i \in DOMAIN FirstClaims(claims) |-> Checked(claims[i], i, world)]

(***************************************************************************)
(* Calls of fact_check_claims.                                             *)
(***************************************************************************)

SevenClaims ==
    <<"The vaccine reduced cases by 40% (p < 0.05).",
      "Prices rose in 2020 [12], officials said: ",
      "  (see [3]) ",
      "Unemployment fell to 3 percent in 2019.",
      "The study found 12 of 30 samples were positive.",
      "Output grew by 5% in 2021.",
      "Rainfall was reported at 20 mm above average.">>

ClaimLists == {Take(SevenClaims, n) : n \in 0..7}

Configs ==
    [account_file : {"none", "invalid", "valid"},
     client_builds : BOOLEAN,
     api_key : {"", Placeholder, "shortkey", "AIzaSyA-long-api-key"}]

FoundChecks == {<<>>, <<FactCheck(<<Review("True")>>)>>,
                <<FactCheck(<<Review("False"), Review("Incorrect")>>)>>}

Worlds ==
    [config : Configs,
     max_retries : {0, DefaultMaxRetries},
     outcomes : [1..DefaultMaxRetries -> AttemptOutcomes],
     found : [1..2 -> FoundChecks]]

FactCheckInit ==
    /\ RequestsIdle
    /\ ScoresIdle
    /\ CacheIdle
    /\ ValidatorsIdle
    /\ UnitsIdle
    /\ StoreIdle
    /\ UploadsIdle

\* run_factcheck has the claims of a text
CallFactCheck ==
    /\ unit = "none"
    /\ \E claims \in ClaimLists, world \in Worlds :
          /\ unit' = "fact_check_claims"
          /\ argument' = claims
          /\ behaviour' = world
    /\ UNCHANGED <<effects, returned>>
    /\ UNCHANGED <<analyzeVars, scoreVars, cacheVars, validateVars, storeVars, uploadVars>>

\* the returns before any client is used
ReturnPlaceholders ==
    /\ unit = "fact_check_claims"
    /\ returned = <<>>
    /\ \/ argument = <<>>
       \/ ~has_valid_credentials(behaviour.config)
       \/ ~use_service(behaviour.config) /\ ~use_rest(behaviour.config)
    /\ returned' = [results |-> fact_check_claims(argument, behaviour)]
    /\ UNCHANGED <<unit, argument, behaviour, effects>>
    /\ UNCHANGED <<analyzeVars, scoreVars, cacheVars, validateVars, storeVars, uploadVars>>

\* the loop over claims[:5] with one of the clients
CheckClaims ==
    /\ unit = "fact_check_claims"
    /\ returned = <<>>
    /\ argument # <<>>
    /\ has_valid_credentials(behaviour.config)
    /\ use_service(behaviour.config) \/ use_rest(behaviour.config)
    /\ effects' = RequestsSent(FirstClaims(argument), behaviour)
    /\ returned' = [results |-> fact_check_claims(argument, behaviour)]
    /\ UNCHANGED <<unit, argument, behaviour>>
    /\ UNCHANGED <<analyzeVars, scoreVars, cacheVars, validateVars, storeVars, uploadVars>>

FactCheckNext ==
    \/ CallFactCheck
    \/ ReturnPlaceholders
    \/ CheckClaims

SpecFactCheck == FactCheckInit /\ [][FactCheckNext]_vars

FactCheckReturned == unit = "fact_check_claims" /\ returned # <<>>

ResultStatuses == {"verified", "contradicted", "no_verdict", "api_error"}

C25_WitnessNoCredentials ==
    /\ FactCheckReturned
    /\ Len(argument) = 7
    /\ ~has_valid_credentials(behaviour.config)
    /\ behaviour.config.api_key = Placeholder


-----------------------------------------------------------------------------
(***************************************************************************)
(* routes/protected_analyze.py: the quality metrics and the overall        *)
(* quality score of analyze_paper.  Scores of the critique are in tenths   *)
(* of a point, the plagiarism score in hundredths; the overall score is    *)
(* in tenths, as round(overall_quality, 1) leaves it.                      *)
(***************************************************************************)

\* dict.get(key, 0)
GetOrZero(d, key) == IF key \in DOMAIN d THEN d[key] ELSE 0

\* citations_report["quality_score"] as the pair valid, total
QualityMetrics(plagiarism_score, citations_report, critique_result) ==
    [plagiarism_score |-> plagiarism_score,
     citation_quality |-> citations_report,
     methodology_score |-> GetOrZero(critique_result, "methodology_score"),
     structure_score |-> GetOrZero(critique_result, "structure_score")]

\* round(0.3 * (100 - plagiarism) + 0.3 * quality + 0.2 * methodology
\*       + 0.2 * structure, 1), in tenths, for a quality of valid / total * 100
\* (0 when there is no citation)
Weighed(copied, valid, total, methodology, structure) ==
    IF total = 0
    THEN RoundDiv(3 * (10000 - copied) + 20 * (methodology + structure), 100)
    ELSE RoundDiv((3 * (10000 - copied) + 20 * (methodology + structure)) * total
                      + 30000 * valid,
                  100 * total)

OverallQuality(metrics) ==
    Weighed(metrics.plagiarism_score, metrics.citation_quality.valid,
            metrics.citation_quality.total, metrics.methodology_score,
            metrics.structure_score)

\* the critique and the scores of the response of analyze_paper
QualityResponse(critique_result, metrics) ==
    [critique |-> critique_result,
     quality_metrics |-> metrics,
     overall_quality_score |-> OverallQuality(metrics)]

(***************************************************************************)
(* The scoring of one protected analyze request: the plagiarism score and  *)
(* the citation counts come from the two reports, whose lookups the text   *)
(* does not determine.                                                     *)
(***************************************************************************)
QualityTexts ==
    {m \o s : m \in MethodSentences, s \in SampleSentences}
      \cup {"Introduction\n\nWe ran an experiment. However, the results vary.\n\nConclusion"}

PlagiarismScores == {0, 1234, 5000, 10000}
CitationCounts == {[valid |-> 0, total |-> 0], [valid |-> 0, total |-> 2],
                   [valid |-> 1, total |-> 2], [valid |-> 3, total |-> 3],
                   [valid |-> 1, total |-> 4]}

QualityInit ==
    /\ RequestsIdle
    /\ ScoresIdle
    /\ CacheIdle
    /\ ValidatorsIdle
    /\ UnitsIdle
    /\ StoreIdle
    /\ UploadsIdle

\* analyze_paper has the text of the upload and the two reports
CallQuality ==
    /\ unit = "none"
    /\ \E txt \in QualityTexts, score \in PlagiarismScores, counts \in CitationCounts :
          /\ unit' = "analyze_paper"
          /\ argument' = txt
          /\ behaviour' = [plagiarism_score |-> score, citations |-> counts]
    /\ UNCHANGED <<effects, returned>>
    /\ UNCHANGED <<analyzeVars, scoreVars, cacheVars, validateVars, storeVars, uploadVars>>

\* critique_paper(text), quality_metrics, overall_quality
ScoreQuality ==
    /\ unit = "analyze_paper"
    /\ returned = <<>>
    /\ returned' = QualityResponse(critique_paper(argument),
                       QualityMetrics(behaviour.plagiarism_score, behaviour.citations,
                                      critique_paper(argument)))
    /\ UNCHANGED <<unit, argument, behaviour, effects>>
    /\ UNCHANGED <<analyzeVars, scoreVars, cacheVars, validateVars, storeVars, uploadVars>>

QualityNext ==
    \/ CallQuality
    \/ ScoreQuality

SpecQuality == QualityInit /\ [][QualityNext]_vars

QualityReturned == unit = "analyze_paper" /\ returned # <<>>

\* the methodology and structure scores the critique computed
CritiqueMethodology(result) == result.methodology_quality_score
CritiqueStructure(result) == result.writing_quality_analysis.structure_coherence.score

\* C29: overall_quality_score is 0.3 * (100 - plagiarism_score) + 0.3 *
\* citation quality_score + 0.2 * methodology + 0.2 * structure with the
\* methodology and structure scores the critique computed for the same text
\* (quality_metrics.methodology_score is nonzero whenever the critique's
\* methodology score is), and it lies in [0, 100].
C29_OverallFromCritiqueScores ==
    QualityReturned
        => /\ returned.overall_quality_score =
                 Weighed(behaviour.plagiarism_score, behaviour.citations.valid,
                         behaviour.citations.total,
                         CritiqueMethodology(returned.critique),
                         CritiqueStructure(returned.critique))
           /\ CritiqueMethodology(returned.critique) # 0
                 => returned.quality_metrics.methodology_score # 0
           /\ returned.overall_quality_score \in 0..1000

\* a text whose critique has a methodology score and a structure score
C29_Witness ==
    /\ QualityReturned
    /\ CritiqueMethodology(returned.critique) > 0
    /\ CritiqueStructure(returned.critique) > 0

\* C29 (what the code does): the critique has no methodology_score and no
\* structure_score entry, both metrics are 0, and the overall score is the
\* plagiarism and citation terms alone, at most 60
C29_CritiqueTermsAreZero ==
    QualityReturned
        => /\ returned.quality_metrics.methodology_score = 0
           /\ returned.quality_metrics.structure_score = 0
           /\ returned.overall_quality_score =
                 Weighed(behaviour.plagiarism_score, behaviour.citations.valid,
                         behaviour.citations.total, 0, 0)
           /\ returned.overall_quality_score \in 0..600


-----------------------------------------------------------------------------
(***************************************************************************)
(* The application of src/__init__.py: routes/auth.py and the endpoints    *)
(* behind @jwt_required.  A request carries a bearer: the jti of an issued *)
(* token, or 0 for none.                                                   *)
(***************************************************************************)

MaxUsers == 2
MaxTokens == 4

MinPasswordLen == 6

\* NULL in a column of ids; the ids of rows start at 1
NoId == 0

\* Model.query.get(id) finds a row
Stored(table, id) == id \in DOMAIN table /\ table[id] # Gone

\* the view goes on
Proceed == [status |-> 0]

\* User.query.filter_by(email=email).first(): the id, or 0
UserByEmail(email) ==
    IF \E i \in DOMAIN users : users[i].email = email
    THEN Min({i \in DOMAIN users : users[i].email = email})
    ELSE 0

\* generate_password_hash and check_password_hash
PasswordHash(password) == "pbkdf2:sha256$" \o password
check_password(row, password) == row.password_hash = PasswordHash(password)

\* User.to_dict
UserDict(id) ==
    [id |-> id, name |-> users[id].name, email |-> users[id].email,
     role |-> users[id].role]

\* re.match(r'^[a-zA-Z0-9._%+-]+@[a-zA-Z0-9.-]+\.[a-zA-Z]{2,}$', email)
EmailMatches(email) ==
    \E at \in 2..Len(email), dot \in 3..Len(email) :
        /\ Ch(email, at) = "@"
        /\ \A i \in 1..(at - 1) :
              Ch(email, i) \in LetterOrDigit \cup {".", "_", "%", "+", "-"}
        /\ dot > at + 1
        /\ Ch(email, dot) = "."
        /\ \A i \in (at + 1)..(dot - 1) : Ch(email, i) \in LetterOrDigit \cup {".", "-"}
        /\ Len(email) - dot >= 2
        /\ \A i \in (dot + 1)..Len(email) : Ch(email, i) \in Letters

\* create_access_token / create_refresh_token(identity=id): the new jti
AccessToken(id) == [identity |-> id, refresh |-> FALSE]
RefreshToken(id) == [identity |-> id, refresh |-> TRUE]

Answer(endpoint, bearer, status, body) ==
    [endpoint |-> endpoint, bearer |-> bearer, status |-> status, body |-> body]

ErrorBody(message) == [error |-> message]

\* 'auth' in request.endpoint
SkipsRevocationCheck(endpoint) == Contains(endpoint, "auth")

\* check_if_token_revoked answers the request itself: the endpoint is not an
\* auth endpoint and the bearer is an access token whose jti is blacklisted
\* (verify_jwt_in_request raises on a refresh token and the check is skipped)
Revoked(endpoint, bearer) ==
    /\ ~SkipsRevocationCheck(endpoint)
    /\ bearer # 0
    /\ ~issued[bearer].refresh
    /\ bearer \in blacklisted_tokens

\* what @jwt_required(refresh=refresh) answers in place of the view
JwtRefusal(bearer, refresh) ==
    IF bearer = 0 THEN [status |-> 401, body |-> [msg |-> "Missing Authorization Header"]]
    ELSE IF issued[bearer].refresh # refresh
    THEN [status |-> 422,
          body |-> [msg |-> IF refresh THEN "Only refresh tokens are allowed"
                            ELSE "Only non-refresh tokens are allowed"]]
    ELSE Proceed

\* the response of an endpoint behind @jwt_required whose view answers with
\* viewed; the state changes only when the view is reached
Guarded(endpoint, bearer, refresh, viewed) ==
    IF Revoked(endpoint, bearer)
    THEN Answer(endpoint, bearer, 401, ErrorBody("Token has been revoked"))
    ELSE IF JwtRefusal(bearer, refresh) # Proceed
    THEN Answer(endpoint, bearer, JwtRefusal(bearer, refresh).status,
                JwtRefusal(bearer, refresh).body)
    ELSE Answer(endpoint, bearer, viewed.status, viewed.body)

ViewReached(endpoint, bearer, refresh) ==
    ~Revoked(endpoint, bearer) /\ JwtRefusal(bearer, refresh) = Proceed

\* get_jwt_identity()
Identity(bearer) == issued[bearer].identity

Viewed(status, body) == [status |-> status, body |-> body]

Bearers == 0..Len(issued)

(***************************************************************************)
(* The request bodies the clients send.                                    *)
(***************************************************************************)
Emails == {"ann@lab.org", "bob@lab.org"}
Passwords == {"secret1", "secret2"}
RegistrationData ==
    [name : {"Ann"}, email : Emails \cup {" Ann@Lab.org ", "ann@lab"},
     password : {"secret1", "short"}, role : {None, "user", "admin"}]
ProfileData ==
    [name : {None, "Eve"}, email : {None} \cup Emails, role : {None, "admin"}]
PasswordData ==
    [current_password : Passwords, new_password : {"secret2", "short"}]

\* register: the response and the row added, if any
RegisterRefusal(data) ==
    IF ~EmailMatches(Lower(Strip(data.email)))
    THEN Viewed(400, ErrorBody("Invalid email format"))
    ELSE IF Len(data.password) < MinPasswordLen
    THEN Viewed(400, ErrorBody("Password must be at least 6 characters long"))
    ELSE IF UserByEmail(Lower(Strip(data.email))) # 0
    THEN Viewed(409, ErrorBody("Email already registered"))
    ELSE Proceed

\* User(name=name, email=email, role=data.get('role', 'user')) with its password
NewUser(data) ==
    [name |-> Strip(data.name), email |-> Lower(Strip(data.email)),
     role |-> IF data.role = None THEN "user" ELSE data.role,
     password_hash |-> PasswordHash(data.password)]

Register ==
    \E data \in RegistrationData :
        /\ Len(users) < MaxUsers
        /\ Len(issued) + 2 <= MaxTokens
        /\ IF RegisterRefusal(data) # Proceed
           THEN /\ reply' = Answer("auth.register", 0, RegisterRefusal(data).status,
                                   RegisterRefusal(data).body)
                /\ UNCHANGED <<users, issued>>
           ELSE /\ users' = Append(users, NewUser(data))
                /\ issued' = issued \o <<AccessToken(Len(users) + 1),
                                         RefreshToken(Len(users) + 1)>>
                /\ reply' = Answer("auth.register", 0, 201,
                                   [user |-> [id |-> Len(users) + 1,
                                              name |-> NewUser(data).name,
                                              email |-> NewUser(data).email,
                                              role |-> NewUser(data).role],
                                    access_token |-> Len(issued) + 1,
                                    refresh_token |-> Len(issued) + 2])
        /\ UNCHANGED <<documents, analyses, citation_rows, blacklisted_tokens>>
        /\ UNCHANGED <<analyzeVars, scoreVars, cacheVars, validateVars, unitVars, uploadVars>>

Login ==
    \E email \in Emails, password \in Passwords :
        /\ Len(issued) + 2 <= MaxTokens
        /\ IF \/ UserByEmail(email) = 0
              \/ ~check_password(users[UserByEmail(email)], password)
           THEN /\ reply' = Answer("auth.login", 0, 401,
                                   ErrorBody("Invalid email or password"))
                /\ UNCHANGED issued
           ELSE /\ issued' = issued \o <<AccessToken(UserByEmail(email)),
                                         RefreshToken(UserByEmail(email))>>
                /\ reply' = Answer("auth.login", 0, 200,
                                   [user |-> UserDict(UserByEmail(email)),
                                    access_token |-> Len(issued) + 1,
                                    refresh_token |-> Len(issued) + 2])
        /\ UNCHANGED <<users, documents, analyses, citation_rows, blacklisted_tokens>>
        /\ UNCHANGED <<analyzeVars, scoreVars, cacheVars, validateVars, unitVars, uploadVars>>

Refresh ==
    \E bearer \in Bearers :
        /\ Len(issued) < MaxTokens
        /\ IF ViewReached("auth.refresh", bearer, TRUE)
           THEN /\ issued' = Append(issued, AccessToken(Identity(bearer)))
                /\ reply' = Answer("auth.refresh", bearer, 200,
                                   [access_token |-> Len(issued) + 1])
           ELSE /\ reply' = Guarded("auth.refresh", bearer, TRUE, None)
                /\ UNCHANGED issued
        /\ UNCHANGED <<users, documents, analyses, citation_rows, blacklisted_tokens>>
        /\ UNCHANGED <<analyzeVars, scoreVars, cacheVars, validateVars, unitVars, uploadVars>>

Logout ==
    \E bearer \in Bearers :
        /\ reply' = Guarded("auth.logout", bearer, FALSE,
                            Viewed(200, [message |-> "Successfully logged out"]))
        /\ blacklisted_tokens' =
              IF ViewReached("auth.logout", bearer, FALSE)
              THEN blacklisted_tokens \cup {bearer} ELSE blacklisted_tokens
        /\ UNCHANGED <<users, documents, analyses, citation_rows, issued>>
        /\ UNCHANGED <<analyzeVars, scoreVars, cacheVars, validateVars, unitVars, uploadVars>>

GetProfile ==
    \E bearer \in Bearers :
        /\ reply' = Guarded("auth.get_profile", bearer, FALSE,
                            IF bearer = 0 THEN None
                            ELSE Viewed(200, [user |-> UserDict(Identity(bearer))]))
        /\ UNCHANGED <<users, documents, analyses, citation_rows, blacklisted_tokens,
                       issued>>
        /\ UNCHANGED <<analyzeVars, scoreVars, cacheVars, validateVars, unitVars, uploadVars>>

\* the row of update_profile after the allowed fields are set
Updated(row, data) ==
    [row EXCEPT !.name = IF data.name = None THEN @ ELSE Strip(data.name),
                !.email = IF data.email = None THEN @ ELSE Lower(Strip(data.email))]

EmailTaken(id, data) ==
    /\ data.email # None
    /\ UserByEmail(Lower(Strip(data.email))) \notin {0, id}

UpdateProfile ==
    \E bearer \in Bearers, data \in ProfileData :
        /\ IF ~ViewReached("auth.update_profile", bearer, FALSE)
           THEN /\ reply' = Guarded("auth.update_profile", bearer, FALSE, None)
                /\ UNCHANGED users
           ELSE IF EmailTaken(Identity(bearer), data)
           THEN /\ reply' = Answer("auth.update_profile", bearer, 409,
                                   ErrorBody("Email already taken"))
                /\ UNCHANGED users
           ELSE /\ users' = [users EXCEPT ![Identity(bearer)] = Updated(@, data)]
                /\ reply' = Answer("auth.update_profile", bearer, 200,
                                   [user |-> [id |-> Identity(bearer),
                                              name |-> users'[Identity(bearer)].name,
                                              email |-> users'[Identity(bearer)].email,
                                              role |-> users'[Identity(bearer)].role]])
        /\ UNCHANGED <<documents, analyses, citation_rows, blacklisted_tokens, issued>>
        /\ UNCHANGED <<analyzeVars, scoreVars, cacheVars, validateVars, unitVars, uploadVars>>

ChangePassword ==
    \E bearer \in Bearers, data \in PasswordData :
        /\ IF ~ViewReached("auth.change_password", bearer, FALSE)
           THEN /\ reply' = Guarded("auth.change_password", bearer, FALSE, None)
                /\ UNCHANGED users
           ELSE IF ~check_password(users[Identity(bearer)], data.current_password)
           THEN /\ reply' = Answer("auth.change_password", bearer, 401,
                                   ErrorBody("Current password is incorrect"))
                /\ UNCHANGED users
           ELSE IF Len(data.new_password) < MinPasswordLen
           THEN /\ reply' = Answer("auth.change_password", bearer, 400,
                        ErrorBody("New password must be at least 6 characters long"))
                /\ UNCHANGED users
           ELSE /\ users' = [users EXCEPT ![Identity(bearer)].password_hash =
                                              PasswordHash(data.new_password)]
                /\ reply' = Answer("auth.change_password", bearer, 200,
                                   [message |-> "Password changed successfully"])
        /\ UNCHANGED <<documents, analyses, citation_rows, blacklisted_tokens, issued>>
        /\ UNCHANGED <<analyzeVars, scoreVars, cacheVars, validateVars, unitVars, uploadVars>>

(***************************************************************************)
(* routes/protected_analyze.py.                                            *)
(***************************************************************************)

MaxDocuments == 2

\* the ids of the stored documents of a user up to id, newest first
RECURSIVE DocumentsOf(_, _)
DocumentsOf(user_id, id) ==
    IF id = 0 THEN <<>>
    ELSE (IF documents[id] # Gone /\ documents[id].user_id = user_id
          THEN <<id>> ELSE <<>>)
         \o DocumentsOf(user_id, id - 1)

\* one entry of "documents" in the response of get_analysis_history
HistoryEntry(id) ==
    [id |-> id, filename |-> documents[id].filename,
     latest_analysis |->
        IF /\ documents[id].latest_analysis_id # NoId
           /\ Stored(analyses, documents[id].latest_analysis_id)
        THEN documents[id].latest_analysis_id ELSE NoId]

HistoryOf(user_id) ==
    [k \in DOMAIN DocumentsOf(user_id, Len(documents)) |->
        HistoryEntry(DocumentsOf(user_id, Len(documents))[k])]

GetHistory ==
    \E bearer \in Bearers :
        /\ reply' = Guarded("protected_analyze.get_analysis_history", bearer, FALSE,
                            IF bearer = 0 THEN None
                            ELSE Viewed(200, [documents |-> HistoryOf(Identity(bearer))]))
        /\ UNCHANGED <<users, documents, analyses, citation_rows, blacklisted_tokens,
                       issued>>
        /\ UNCHANGED <<analyzeVars, scoreVars, cacheVars, validateVars, unitVars, uploadVars>>

\* what a protected POST /analyze carries, and how its processing goes
ProtectedUploads == {"no_file", "no_filename", "unreadable_pdf", "analysis_fails", "ok"}
Filenames == {"paper.pdf", "draft.pdf"}

\* the id of an object added to the session and not flushed yet
Pending == NoId

\* Document(...), flushed, then "document.latest_analysis_id = analysis.id"
\* with the Analysis added to the session and not flushed
NewDocument(user_id, filename) ==
    [user_id |-> user_id, filename |-> filename, stored_path |-> None,
     latest_analysis_id |-> Pending]
NewAnalysis(document_id, user_id) == [document_id |-> document_id, user_id |-> user_id]

ProtectedAnalyze ==
    \E bearer \in Bearers, sent \in ProtectedUploads, filename \in Filenames :
        /\ Len(documents) < MaxDocuments
        /\ IF ~ViewReached("protected_analyze.analyze_paper", bearer, FALSE)
           THEN /\ reply' = Guarded("protected_analyze.analyze_paper", bearer, FALSE, None)
                /\ UNCHANGED <<documents, analyses>>
           ELSE IF sent = "no_file"
           THEN /\ reply' = Answer("protected_analyze.analyze_paper", bearer, 400,
                                   ErrorBody("No file uploaded"))
                /\ UNCHANGED <<documents, analyses>>
           ELSE IF sent = "no_filename"
           THEN /\ reply' = Answer("protected_analyze.analyze_paper", bearer, 400,
                                   ErrorBody("No file selected"))
                /\ UNCHANGED <<documents, analyses>>
           ELSE IF sent \in {"unreadable_pdf", "analysis_fails"}
           THEN \* db.session.rollback()
                /\ reply' = Answer("protected_analyze.analyze_paper", bearer, 500,
                                   ErrorBody("Analysis failed"))
                /\ UNCHANGED <<documents, analyses>>
           ELSE /\ documents' = Append(documents, NewDocument(Identity(bearer), filename))
                /\ analyses' = Append(analyses,
                                      NewAnalysis(Len(documents) + 1, Identity(bearer)))
                /\ reply' = Answer("protected_analyze.analyze_paper", bearer, 200,
                                   [document_id |-> Len(documents) + 1,
                                    analysis_id |-> Len(analyses) + 1])
        /\ UNCHANGED <<users, citation_rows, blacklisted_tokens, issued>>
        /\ UNCHANGED <<analyzeVars, scoreVars, cacheVars, validateVars, unitVars, uploadVars>>

(***************************************************************************)
(* Clients that register, log in and out, and use their tokens.            *)
(***************************************************************************)
AuthInit ==
    /\ RequestsIdle
    /\ ScoresIdle
    /\ CacheIdle
    /\ ValidatorsIdle
    /\ UnitsIdle
    /\ StoreIdle
    /\ UploadsIdle

AuthNext ==
    \/ Register
    \/ Login
    \/ Refresh
    \/ Logout
    \/ GetProfile
    \/ UpdateProfile
    \/ ChangePassword
    \/ GetHistory

SpecAuth == AuthInit /\ [][AuthNext]_vars

\* the last request presented an access token that had been blacklisted
\* before it
PresentedRevoked ==
    /\ reply # NoReply
    /\ reply.endpoint # "auth.logout"
    /\ reply.bearer \in blacklisted_tokens

\* C22: after a successful logout the jti of the token stays blacklisted,
\* and every later request that presents the token to an endpoint behind
\* @jwt_required, of the auth blueprint or of the protected analyze
\* blueprint, is answered 401.
C22_RevokedTokenRejected ==
    PresentedRevoked => reply.status = 401

\* a revoked token was presented to GET /history
C22_Witness ==
    /\ PresentedRevoked
    /\ reply.endpoint = "protected_analyze.get_analysis_history"

\* C22 (what the code does): a jti is never taken out of the blacklist
C22_BlacklistGrows == [][blacklisted_tokens \subseteq blacklisted_tokens']_vars

\* C22 (what the code does): the endpoints outside the auth blueprint answer
\* 401 to a revoked token
C22_RejectedOutsideAuth ==
    PresentedRevoked /\ ~SkipsRevocationCheck(reply.endpoint) => reply.status = 401

\* C22 (what the code does): the endpoints of the auth blueprint answer a
\* revoked token as they answer any other
C22_AuthEndpointsIgnoreBlacklist ==
    PresentedRevoked /\ SkipsRevocationCheck(reply.endpoint) /\ ~issued[reply.bearer].refresh
        => reply.status # 401 \/ reply.endpoint = "auth.change_password"

\* C28: no sequence of calls of register, login, refresh, update profile and
\* change password gives a client an account whose role is 'admin': every
\* user created by POST /register has role 'user' and no auth endpoint
\* changes a role.
C28_NoAdminThroughAuth ==
    \A id \in DOMAIN users : users[id].role = "user"

\* a user has registered and has since updated the profile with a role field
C28_Witness ==
    /\ users # <<>>
    /\ reply # NoReply
    /\ reply.endpoint = "auth.update_profile"
    /\ reply.status = 200

\* C28 (what the code does): the role of a stored user never changes
C28_RoleNeverChanges ==
    [][\A id \in DOMAIN users : users'[id].role = users[id].role]_vars

\* C28 (what the code does): a user has the role the registration asked for
C28_AdminByRegistration ==
    reply # NoReply /\ reply.endpoint = "auth.register" /\ reply.status = 201
        => users[reply.body.user.id].role = reply.body.user.role


(***************************************************************************)
(* Registered clients that analyze papers and read their history.          *)
(***************************************************************************)
HistoryNext ==
    \/ Register
    \/ ProtectedAnalyze
    \/ GetHistory

SpecHistory == AuthInit /\ [][HistoryNext]_vars

Analyzed ==
    /\ reply # NoReply
    /\ reply.endpoint = "protected_analyze.analyze_paper"
    /\ reply.status = 200

HistoryRead ==
    /\ reply # NoReply
    /\ reply.endpoint = "protected_analyze.get_analysis_history"
    /\ reply.status = 200

\* the document has a stored analysis
HasAnalysis(document_id) ==
    \E id \in DOMAIN analyses :
        analyses[id] # Gone /\ analyses[id].document_id = document_id

\* C27: after a successful protected POST /analyze the latest_analysis_id of
\* the created document is the id of the Analysis the request created, and a
\* later GET /history reports that analysis as the latest_analysis of the
\* document.
C27_LatestAnalysisRecorded ==
    /\ Analyzed
         => documents[reply.body.document_id].latest_analysis_id = reply.body.analysis_id
    /\ HistoryRead
         => \A k \in DOMAIN reply.body.documents :
               HasAnalysis(reply.body.documents[k].id)
                  => /\ reply.body.documents[k].latest_analysis # NoId
                     /\ analyses[reply.body.documents[k].latest_analysis].document_id
                           = reply.body.documents[k].id

\* the history of a user who has analyzed a paper was read
C27_Witness ==
    /\ HistoryRead
    /\ \E k \in DOMAIN reply.body.documents : HasAnalysis(reply.body.documents[k].id)

\* C27 (what the code does): the request stores one Analysis for the created
\* document, and the document's latest_analysis_id stays NULL
C27_LatestAnalysisNull ==
    /\ Analyzed
         => /\ analyses[reply.body.analysis_id].document_id = reply.body.document_id
            /\ documents[reply.body.document_id].latest_analysis_id = NoId
    /\ HistoryRead
         => \A k \in DOMAIN reply.body.documents :
               reply.body.documents[k].latest_analysis = NoId

(***************************************************************************)
(* The endpoints that address a stored document or analysis by its id:     *)
(* routes/documents.py, routes/results.py, routes/factcheck.py and         *)
(* routes/citations.py, mounted on the application of routes/auth.py.      *)
(* upload_folder holds the files of the upload directory, by path.         *)
(***************************************************************************)
MinFactcheckLen == 50
MinCitationsLen == 100

\* the text of the uploaded PDFs; none has an in-text citation
ShortPaper == "A draft."
Opening == "Vaccines cut measles deaths by four fifths in ten years."
LongPaper ==
    Opening \o " This paper has no list of sources at all, and nothing in it is cited."
CitedPaper ==
    Opening \o " The list of the sources of this paper follows.\nReferences\n"
            \o "Smith J. Measles after vaccination. Journal of Health 2020."
Papers == {ShortPaper, LongPaper, CitedPaper}

\* os.path.join(upload_dir, generate_safe_filename(file.filename)): a name
\* no other upload has
StoredPath(id) == "uploads/" \o ToString(id) \o ".pdf"

\* os.path.exists(path)
PathExists(path) == path \in DOMAIN upload_folder

\* the request names a stored document or analysis
AnswerAbout(endpoint, bearer, table, id, status, body) ==
    [endpoint |-> endpoint, bearer |-> bearer, asked |-> [table |-> table, id |-> id],
     status |-> status, body |-> body]

\* check_document_ownership(document, current_user.id) or the admin role
Entitled(bearer, document_id) ==
    /\ bearer # 0
    /\ \/ documents[document_id].user_id = Identity(bearer)
       \/ users[Identity(bearer)].role = "admin"

\* Document.to_dict
DocumentDict(id) ==
    [id |-> id, filename |-> documents[id].filename, user_id |-> documents[id].user_id]

\* documents.upload_document
UploadDocument ==
    \E bearer \in Bearers, sent \in {"no_file", "unreadable_pdf"} \cup Papers :
        /\ Len(documents) < MaxDocuments
        /\ IF ~ViewReached("documents.upload_document", bearer, FALSE)
           THEN /\ reply' = Guarded("documents.upload_document", bearer, FALSE, None)
                /\ UNCHANGED <<documents, upload_folder>>
           ELSE IF sent = "no_file"
           THEN /\ reply' = Answer("documents.upload_document", bearer, 400,
                                   [message |-> "Validation failed"])
                /\ UNCHANGED <<documents, upload_folder>>
           ELSE IF sent = "unreadable_pdf"
           THEN \* db.session.rollback() and os.remove(file_path)
                /\ reply' = Answer("documents.upload_document", bearer, 500,
                                   [message |-> "Upload failed"])
                /\ UNCHANGED <<documents, upload_folder>>
           ELSE /\ upload_folder' = (StoredPath(Len(documents) + 1) :> sent) @@ upload_folder
                /\ documents' = Append(documents,
                                       [user_id |-> Identity(bearer), filename |-> "paper.pdf",
                                        stored_path |-> StoredPath(Len(documents) + 1),
                                        latest_analysis_id |-> NoId])
                /\ reply' = Answer("documents.upload_document", bearer, 201,
                                   [document_id |-> Len(documents) + 1])
        /\ UNCHANGED <<users, analyses, citation_rows, blacklisted_tokens, issued, jobs>>
        /\ UNCHANGED <<analyzeVars, scoreVars, cacheVars, validateVars, unitVars>>

\* the rows db.session.delete(document) leaves: the cascade of
\* Document.analyses and of Analysis.citations
WithoutDocument(table, document_id) ==
    [id \in DOMAIN table |->
        IF table[id] # Gone /\ table[id].document_id = document_id THEN Gone
        ELSE table[id]]
WithoutCitationsOf(document_id) ==
    [id \in DOMAIN citation_rows |->
        IF /\ citation_rows[id] # Gone
           /\ Stored(analyses, citation_rows[id].analysis_id)
           /\ analyses[citation_rows[id].analysis_id].document_id = document_id
        THEN Gone ELSE citation_rows[id]]

\* the upload directory after os.remove(path)
Removed(path) == [p \in DOMAIN upload_folder \ {path} |-> upload_folder[p]]

\* documents.delete_document
DeleteDocument ==
    \E bearer \in Bearers, document_id \in 1..MaxDocuments :
        /\ IF ~ViewReached("documents.delete_document", bearer, FALSE)
           THEN /\ reply' = Guarded("documents.delete_document", bearer, FALSE, None)
                               @@ [asked |-> [table |-> "documents", id |-> document_id]]
                /\ UNCHANGED <<documents, analyses, citation_rows, upload_folder>>
           ELSE IF ~Stored(documents, document_id)
           THEN /\ reply' = AnswerAbout("documents.delete_document", bearer, "documents",
                                        document_id, 404, [message |-> "Document not found"])
                /\ UNCHANGED <<documents, analyses, citation_rows, upload_folder>>
           ELSE IF ~Entitled(bearer, document_id)
           THEN /\ reply' = AnswerAbout("documents.delete_document", bearer, "documents",
                                        document_id, 403, [message |-> "Access denied"])
                /\ UNCHANGED <<documents, analyses, citation_rows, upload_folder>>
           ELSE IF documents[document_id].stored_path = None
           THEN \* os.path.exists(None) raises TypeError: db.session.rollback()
                /\ reply' = AnswerAbout("documents.delete_document", bearer, "documents",
                                        document_id, 500, [message |-> "Delete failed"])
                /\ UNCHANGED <<documents, analyses, citation_rows, upload_folder>>
           ELSE /\ upload_folder' = Removed(documents[document_id].stored_path)
                /\ documents' = [documents EXCEPT ![document_id] = Gone]
                /\ analyses' = WithoutDocument(analyses, document_id)
                /\ citation_rows' = WithoutCitationsOf(document_id)
                /\ reply' = AnswerAbout("documents.delete_document", bearer, "documents",
                                        document_id, 200,
                                        [message |-> "Document deleted successfully"])
        /\ UNCHANGED <<users, blacklisted_tokens, issued, jobs>>
        /\ UNCHANGED <<analyzeVars, scoreVars, cacheVars, validateVars, unitVars>>

\* results.get_analysis_result
GetAnalysisResult ==
    \E bearer \in Bearers, analysis_id \in 1..MaxDocuments :
        /\ reply' =
             IF ~ViewReached("results.get_analysis_result", bearer, FALSE)
             THEN Guarded("results.get_analysis_result", bearer, FALSE, None)
                     @@ [asked |-> [table |-> "analyses", id |-> analysis_id]]
             ELSE IF ~Stored(analyses, analysis_id)
             THEN AnswerAbout("results.get_analysis_result", bearer, "analyses", analysis_id,
                              404, ErrorBody("Analysis not found"))
             ELSE IF ~Entitled(bearer, analyses[analysis_id].document_id)
             THEN AnswerAbout("results.get_analysis_result", bearer, "analyses", analysis_id,
                              403, ErrorBody("Access denied"))
             ELSE AnswerAbout("results.get_analysis_result", bearer, "analyses", analysis_id,
                              200, [id |-> analysis_id,
                                    document |->
                                        DocumentDict(analyses[analysis_id].document_id)])
        /\ UNCHANGED <<users, documents, analyses, citation_rows, blacklisted_tokens,
                       issued>>
        /\ UNCHANGED <<analyzeVars, scoreVars, cacheVars, validateVars, unitVars, uploadVars>>

\* what check_if_token_revoked answers before a view without @jwt_required
RevokedAnswer(endpoint, bearer, document_id) ==
    AnswerAbout(endpoint, bearer, "documents", document_id, 401,
                ErrorBody("Token has been revoked"))

\* extract_text_and_meta(document.stored_path) raises: the path is None or
\* names no file
ExtractionRaises(document_id) ==
    \/ documents[document_id].stored_path = None
    \/ ~PathExists(documents[document_id].stored_path)

\* extract_text_from_pdf: the text of each PDF, stripped
PdfText == [p \in Papers |-> Strip(p)]

\* the text extract_text_and_meta returns
TextOf(document_id) == PdfText[upload_folder[documents[document_id].stored_path]]

\* the texts in which validate(text) finds citations
Cited == {t \in Range(PdfText) : ref_entries(t) # <<>>}

\* factcheck.run_factcheck with {"document_id": document_id}; the body of a
\* 200 is computed from the text of the document
RunFactcheck ==
    \E bearer \in Bearers, document_id \in 1..MaxDocuments :
        /\ reply' =
             IF Revoked("factcheck.run_factcheck", bearer)
             THEN RevokedAnswer("factcheck.run_factcheck", bearer, document_id)
             ELSE IF ~Stored(documents, document_id)
             THEN AnswerAbout("factcheck.run_factcheck", bearer, "documents", document_id,
                              404, [message |-> "document not found"])
             ELSE IF ExtractionRaises(document_id)
             THEN AnswerAbout("factcheck.run_factcheck", bearer, "documents", document_id,
                              500, [message |-> "Failed to extract text from document"])
             ELSE IF Len(TextOf(document_id)) < MinFactcheckLen
             THEN AnswerAbout("factcheck.run_factcheck", bearer, "documents", document_id,
                              400, [message |-> "Document text too short for fact-checking"])
             ELSE AnswerAbout("factcheck.run_factcheck", bearer, "documents", document_id,
                              200, [claims_of |-> TextOf(document_id)])
        /\ UNCHANGED <<users, documents, analyses, citation_rows, blacklisted_tokens,
                       issued>>
        /\ UNCHANGED <<analyzeVars, scoreVars, cacheVars, validateVars, unitVars, uploadVars>>

\* citations.validate_citations_endpoint with {"document_id": document_id}:
\* with no citation found the answer is the empty report; with citations the
\* import of CROSSREF_API_KEY raises ImportError and the handler answers 500
ValidateCitationsEndpoint ==
    \E bearer \in Bearers, document_id \in 1..MaxDocuments :
        /\ reply' =
             IF Revoked("citations.validate_citations_endpoint", bearer)
             THEN RevokedAnswer("citations.validate_citations_endpoint", bearer, document_id)
             ELSE IF ~Stored(documents, document_id)
             THEN AnswerAbout("citations.validate_citations_endpoint", bearer, "documents",
                              document_id, 404, [message |-> "document not found"])
             ELSE IF ExtractionRaises(document_id)
             THEN AnswerAbout("citations.validate_citations_endpoint", bearer, "documents",
                              document_id, 500, [message |-> "Internal error"])
             ELSE IF Len(TextOf(document_id)) < MinCitationsLen
             THEN AnswerAbout("citations.validate_citations_endpoint", bearer, "documents",
                              document_id, 400, [message |-> "Document too short"])
             ELSE IF TextOf(document_id) \notin Cited
             THEN AnswerAbout("citations.validate_citations_endpoint", bearer, "documents",
                              document_id, 200, [message |-> "No citations found"])
             ELSE AnswerAbout("citations.validate_citations_endpoint", bearer, "documents",
                              document_id, 500, [message |-> "Internal error"])
        /\ UNCHANGED <<users, documents, analyses, citation_rows, blacklisted_tokens,
                       issued>>
        /\ UNCHANGED <<analyzeVars, scoreVars, cacheVars, validateVars, unitVars, uploadVars>>

(***************************************************************************)
(* Registered clients that upload and analyze papers, and any client that  *)
(* asks for a document or an analysis by its id.                           *)
(***************************************************************************)
OwnershipNext ==
    \/ Register
    \/ UploadDocument
    \/ ProtectedAnalyze
    \/ DeleteDocument
    \/ GetAnalysisResult
    \/ RunFactcheck
    \/ ValidateCitationsEndpoint

SpecOwnership == AuthInit /\ [][OwnershipNext]_vars

\* the document a request is about, in the rows stored when it arrives
AskedDocument(request) ==
    IF request.asked.table = "documents" THEN request.asked.id
    ELSE IF Stored(analyses, request.asked.id)
    THEN analyses[request.asked.id].document_id
    ELSE NoId

\* the request of a caller who is neither the owner nor an admin, about a
\* stored document
FromStranger(request) ==
    /\ "asked" \in DOMAIN request
    /\ Stored(documents, AskedDocument(request))
    /\ ~Entitled(request.bearer, AskedDocument(request))

\* the answers that serve nothing of the document: the refusals of the JWT
\* layer (401, 422) and of the views (403, 404), and the errors (400, 500)
Denied(status) == status \in {400, 401, 403, 404, 422, 500}

C23_GuardedEndpointsDeny ==
    [][(FromStranger(reply')
          /\ reply'.endpoint \in {"documents.delete_document", "results.get_analysis_result"})
          => /\ Denied(reply'.status)
             /\ UNCHANGED <<users, documents, analyses, citation_rows, upload_folder>>]_vars

\* C23 (what the code does): no request of a stranger changes the stored
\* rows and files, and run_factcheck and validate_citations_endpoint answer
\* a stranger as they answer the owner
C23_StrangerChangesNothing ==
    [][FromStranger(reply')
          => UNCHANGED <<users, documents, analyses, citation_rows, upload_folder>>]_vars

(***************************************************************************)
(* routes/analysis.py, run_analysis, on the same application.  Document    *)
(* has the relationships analyses and latest_analysis and no attribute     *)
(* "analysis": the test "if document.analysis" raises AttributeError       *)
(* before the try block, the error handler of the application answers 500, *)
(* and no statement after the test is reached.                             *)
(***************************************************************************)
RunAnalysis ==
    \E bearer \in Bearers, document_id \in 1..MaxDocuments, valid \in BOOLEAN :
        /\ reply' =
             IF ~ViewReached("analysis.run_analysis", bearer, FALSE)
             THEN Guarded("analysis.run_analysis", bearer, FALSE, None)
                     @@ [asked |-> [table |-> "documents", id |-> document_id]]
             ELSE IF ~valid
             THEN \* RunAnalysisSchema().load raises ValidationError
                  Answer("analysis.run_analysis", bearer, 400,
                         [message |-> "Validation error"])
             ELSE IF ~Stored(documents, document_id)
             THEN AnswerAbout("analysis.run_analysis", bearer, "documents", document_id,
                              404, [message |-> "Document not found"])
             ELSE IF ~Entitled(bearer, document_id)
             THEN AnswerAbout("analysis.run_analysis", bearer, "documents", document_id,
                              403, [message |-> "Access denied"])
             ELSE \* document.analysis: AttributeError
                  AnswerAbout("analysis.run_analysis", bearer, "documents", document_id,
                              500, ErrorBody("Internal server error occurred"))
        /\ UNCHANGED <<users, documents, analyses, citation_rows, blacklisted_tokens,
                       issued>>
        /\ UNCHANGED <<analyzeVars, scoreVars, cacheVars, validateVars, unitVars, uploadVars>>

(***************************************************************************)
(* Registered clients that upload and analyze papers and ask run_analysis  *)
(* for an analysis of a stored document.                                   *)
(***************************************************************************)
RunAnalysisNext ==
    \/ Register
    \/ UploadDocument
    \/ ProtectedAnalyze
    \/ RunAnalysis

SpecRunAnalysis == AuthInit /\ [][RunAnalysisNext]_vars

\* the stored analyses of a document
AnalysesOf(table, document_id) ==
    {id \in DOMAIN table : table[id] # Gone /\ table[id].document_id = document_id}

\* run_analysis was asked, with the access token of the owner or of an admin,
\* for a stored document
RunAsked(request) ==
    /\ request.endpoint = "analysis.run_analysis"
    /\ "asked" \in DOMAIN request
    /\ Stored(documents, request.asked.id)
    /\ Entitled(request.bearer, request.asked.id)
    /\ ~issued[request.bearer].refresh

\* C24: after a run_analysis call every document has at most one Analysis; a
\* call for a document that already has one is answered 409 and creates
\* nothing; and a call that does not answer 201 leaves no Analysis row and no
\* Citation row behind.
C24_OneAnalysisOrConflict ==
    [][reply'.endpoint = "analysis.run_analysis"
          => /\ \A d \in DOMAIN documents' : Cardinality(AnalysesOf(analyses', d)) <= 1
             /\ (RunAsked(reply') /\ AnalysesOf(analyses, reply'.asked.id) # {})
                   => /\ reply'.status = 409
                      /\ UNCHANGED <<analyses, citation_rows>>
             /\ reply'.status # 201 => UNCHANGED <<analyses, citation_rows>>]_vars

\* the owner asked run_analysis for a document that has an analysis
C24_Witness ==
    /\ reply # NoReply
    /\ RunAsked(reply)
    /\ AnalysesOf(analyses, reply.asked.id) # {}

\* C24 (what the code does): run_analysis stores nothing, whatever it
\* answers, and no document has more than one Analysis
C24_RunAnalysisStoresNothing ==
    [][reply'.endpoint = "analysis.run_analysis"
          => /\ UNCHANGED <<documents, analyses, citation_rows>>
             /\ \A d \in DOMAIN documents : Cardinality(AnalysesOf(analyses, d)) <= 1]_vars

\* C24 (what the code does): the owner's request for a stored document is
\* answered 500, with or without an earlier analysis, and never 409 or 201
C24_OwnerAnswered500 ==
    (reply # NoReply /\ RunAsked(reply)) => reply.status = 500

(***************************************************************************)
(* The upload directory under concurrent requests.  app.run(threaded=True) *)
(* serves each request in a thread of its own; process_uploaded_pdf and    *)
(* analyze_paper of app_simple.py save the upload under                    *)
(* os.path.join(upload_folder, secure_filename(file.filename)), read it    *)
(* back and remove it.  jobs holds one record per request received, and    *)
(* upload_folder the bytes of each file of the directory, by path.         *)
(***************************************************************************)

\* the bytes of the PDFs the clients upload
UploadedPdfs ==
    {"Measles deaths fell by four fifths in the ten years after vaccination.\n",
     "Sea levels rose by twenty centimetres over the course of the century.\n",
     "A draft.\n"}

\* os.path.join(upload_folder, filename)
PdfPath(filename) == "./uploads/" \o filename

\* the file a request works on
PathOf(job) == PdfPath(job.filename)

\* a request arrives with its file; its thread has not yet saved it
Receive ==
    \E filename \in Filenames, bytes \in UploadedPdfs :
        /\ Len(jobs) < NumRequests
        /\ jobs' = Append(jobs, [pc |-> "received", filename |-> filename,
                                 bytes |-> bytes, read |-> None, status |-> 0])
        /\ UNCHANGED upload_folder
        /\ UNCHANGED <<analyzeVars, scoreVars, cacheVars, validateVars, unitVars, storeVars>>

\* file.save(pdf_path): the file is created or overwritten
SaveUploadedFile ==
    \E i \in DOMAIN jobs :
        /\ jobs[i].pc = "received"
        /\ upload_folder' = (PathOf(jobs[i]) :> jobs[i].bytes) @@ upload_folder
        /\ jobs' = [jobs EXCEPT ![i].pc = "saved"]
        /\ UNCHANGED <<analyzeVars, scoreVars, cacheVars, validateVars, unitVars, storeVars>>

\* extract_text_from_pdf(pdf_path) and the length test: open() raises when
\* the file is gone (500), a text of fewer than 50 characters is refused
\* (400), and the text read is otherwise analyzed (200)
ExtractUploadedText ==
    \E i \in DOMAIN jobs :
        /\ jobs[i].pc = "saved"
        /\ jobs' =
             IF ~PathExists(PathOf(jobs[i]))
             THEN [jobs EXCEPT ![i].pc = "extracted", ![i].status = 500]
             ELSE [jobs EXCEPT ![i].pc = "extracted",
                               ![i].read = upload_folder[PathOf(jobs[i])],
                               ![i].status =
                                   IF ProcessPdfRejects(upload_folder[PathOf(jobs[i])])
                                   THEN 400 ELSE 200]
        /\ UNCHANGED upload_folder
        /\ UNCHANGED <<analyzeVars, scoreVars, cacheVars, validateVars, unitVars, storeVars>>

\* the finally block: os.remove(pdf_path) if os.path.exists(pdf_path)
CleanupFile ==
    \E i \in DOMAIN jobs :
        /\ jobs[i].pc = "extracted"
        /\ upload_folder' = IF PathExists(PathOf(jobs[i])) THEN Removed(PathOf(jobs[i]))
                            ELSE upload_folder
        /\ jobs' = [jobs EXCEPT ![i].pc = "done"]
        /\ UNCHANGED <<analyzeVars, scoreVars, cacheVars, validateVars, unitVars, storeVars>>

UploadsNext ==
    \/ Receive
    \/ SaveUploadedFile
    \/ ExtractUploadedText
    \/ CleanupFile

SpecUploads == AuthInit /\ [][UploadsNext]_vars

\* the request has saved its file and not yet removed it
InFlight(job) == job.pc \in {"saved", "extracted"}

\* the step leaves the stored file of the request as it is
FileKept(job) ==
    /\ PathExists(PathOf(job))
    /\ PathOf(job) \in DOMAIN upload_folder'
    /\ upload_folder'[PathOf(job)] = upload_folder[PathOf(job)]

\* C26: every request that has extracted its text read exactly the bytes it
\* uploaded, and no step of one request deletes or replaces the stored file
\* of another request in flight, whatever the filenames of the uploads.
C26_NoInterference ==
    [][/\ \A i \in DOMAIN jobs' :
             jobs'[i].pc \in {"extracted", "done"} => jobs'[i].read = jobs'[i].bytes
       /\ \A i \in DOMAIN jobs :
             (InFlight(jobs[i]) /\ jobs'[i] = jobs[i]) => FileKept(jobs[i])]_vars

\* two requests with the same filename and different bytes were in flight
\* together and both have extracted
C26_Witness ==
    /\ Len(jobs) = 2
    /\ jobs[1].filename = jobs[2].filename
    /\ jobs[1].bytes # jobs[2].bytes
    /\ jobs[1].pc = "extracted"
    /\ jobs[2].pc = "extracted"

\* C26 (what the code does): requests whose uploads have different filenames
\* do not interfere
C26_DistinctNamesIsolated ==
    [][(\A i, j \in DOMAIN jobs' : i # j => jobs'[i].filename # jobs'[j].filename)
          => /\ \A i \in DOMAIN jobs' :
                   jobs'[i].pc \in {"extracted", "done"} => jobs'[i].read = jobs'[i].bytes
             /\ \A i \in DOMAIN jobs :
                   (InFlight(jobs[i]) /\ jobs'[i] = jobs[i]) => FileKept(jobs[i])]_vars

====
